---------------------------- MODULE Spec2Model ----------------------------
(***************************************************************************)
(* Model of the birb reconciler (core/src/view_tree.rs): the ViewTree that *)
(* diffs a tree of view descriptors against its persistent nodes and       *)
(* enqueues patches for the native-view tree.                              *)
(*                                                                         *)
(* A render pass (ViewTree::render_root) is one action.  The recursive     *)
(* functions diff / diff_subviews / add_view / remove_view / replace_view  *)
(* / update_view are operators over a record t holding the fields of the   *)
(* ViewTree that they mutate.  diff and diff_subviews return the SET of    *)
(* results the build can produce: diff_subviews removes the unmatched old  *)
(* subviews in the iteration order of a std HashMap, which is unspecified. *)
(***************************************************************************)
EXTENDS Integers, Sequences, FiniteSets, TLC

(***************************************************************************)
(* Bounds.                                                                 *)
(***************************************************************************)
\* number of render_root calls in a behaviour
MaxPasses == 2

(***************************************************************************)
(* View descriptors (core/src/view.rs).                                    *)
(*   kind : the TypeId of the descriptor                                   *)
(*   prop : its properties (what PartialEq compares)                       *)
(*   key  : View::key(), <<>> for None and <<k>> for Some(k)               *)
(*   sub  : for a Fragment its items; for () nothing; for any other kind   *)
(*          the one view its body() returns                                *)
(***************************************************************************)
NativeKinds == {"Layer", "Text"}
CompositeKinds == {"Comp", "Wrap"}

V(kind, prop, key, sub) == [kind |-> kind, prop |-> prop, key |-> key, sub |-> sub]

\* impl View for ()
Unit == V("Unit", 0, <<>>, <<>>)

\* pub type Fragment<Ctx> = Vec<Arc<dyn View<Ctx>>>
Fragment(items) == V("Fragment", 0, <<>>, items)

\* Option<ViewId>::None
NoId == 0

\* View::native_type().is_some()
NativeType(view) == view.kind \in NativeKinds

\* View::body: () renders (), a Fragment renders a clone of itself
Body(view) ==
    IF view.kind \in {"Unit", "Fragment"} THEN view ELSE view.sub[1]

\* node.view.as_any().type_id() == view.as_any().type_id()
SameTypeId(a, b) == a.kind = b.kind

\* View::is_same_type: the default implementation returns true; a proxy
\* view overrides it and answers whether it stands for the same type as the
\* other view (the type it stands for is its prop)
IsSameType(a, b) == IF a.kind = "Proxy" THEN a.prop = b.prop ELSE TRUE

\* View::eq.  impl_view: false unless the other view downcasts to the same
\* struct, then PartialEq of the struct, which compares the properties and
\* the views the struct holds to render its body (as Layer's PartialEq does).
\* Fragment: same length and element-wise eq.
RECURSIVE ViewEq(_, _)
ViewEq(a, b) ==
    IF a.kind # b.kind THEN FALSE
    ELSE IF a.kind = "Fragment"
         THEN /\ Len(a.sub) = Len(b.sub)
              /\ \A i \in 1..Len(a.sub) : ViewEq(a.sub[i], b.sub[i])
         ELSE IF a.kind = "Proxy"
         THEN \* a proxy view compares the view it renders
              a.sub = b.sub
         ELSE a.prop = b.prop /\ a.sub = b.sub

\* the payload handed to the NV tree: view.native_view()
NativeViewOf(view) == [kind |-> view.kind, prop |-> view.prop]
NoPayload == [kind |-> "None", prop |-> 0]

(***************************************************************************)
(* Patches (core/src/nv_tree.rs, enum Patch).                              *)
(***************************************************************************)
PatchSetRoot(id) ==
    [op |-> "SetRoot", id |-> id, nv |-> NoPayload, pos |-> 0, len |-> 0, subs |-> <<>>]
PatchUpdate(id, nv) ==
    [op |-> "Update", id |-> id, nv |-> nv, pos |-> 0, len |-> 0, subs |-> <<>>]
PatchReplace(id, nv) ==
    [op |-> "Replace", id |-> id, nv |-> nv, pos |-> 0, len |-> 0, subs |-> <<>>]
PatchSubviewRegion(id, pos, len, subs) ==
    [op |-> "SubviewRegion", id |-> id, nv |-> NoPayload, pos |-> pos, len |-> len, subs |-> subs]
PatchRemove(id) ==
    [op |-> "Remove", id |-> id, nv |-> NoPayload, pos |-> 0, len |-> 0, subs |-> <<>>]

(***************************************************************************)
(* Helpers for HashMap values.                                             *)
(***************************************************************************)
MapInsert(m, k, v) == (k :> v) @@ m
MapRemove(m, k) == [x \in DOMAIN m \ {k} |-> m[x]]
EmptyMap == [x \in {} |-> 0]

RECURSIVE Perms(_)
Perms(S) ==
    IF S = {} THEN {<<>>}
    ELSE UNION {{<<x>> \o p : p \in Perms(S \ {x})} : x \in S}

\* a call observed during a pass; at = number of patches enqueued before it
Call(t, ev, id, view) ==
    [ev |-> ev, id |-> id, view |-> view, at |-> Len(t.patches)]

(***************************************************************************)
(* ViewTree::add_view                                                      *)
(***************************************************************************)
\* add_view without the is_native test around the patch
AddView_PatchAlways(t, id, view, nv_subregion_start) ==
    LET t1 == [t EXCEPT !.log = Append(@, Call(t, "new_state", id, view)),
                        !.nstate = @ + 1]
        t2 == [t1 EXCEPT !.patches = Append(@, PatchUpdate(id, NativeViewOf(view)))]
        node == [view |-> view,
                 is_native |-> NativeType(view),
                 superview |-> NoId,
                 nv_ancestor |-> NoId,
                 pos |-> nv_subregion_start,
                 len |-> 0,
                 state |-> t.nstate,
                 subviews |-> <<>>]
    IN [t2 EXCEPT !.nodes = MapInsert(@, id, node)]

AddView(t, id, view, nv_subregion_start) ==
    LET is_native == NativeType(view)
        t1 == [t EXCEPT !.log = Append(@, Call(t, "new_state", id, view)),
                        !.nstate = @ + 1]
        t2 == IF is_native
              THEN [t1 EXCEPT !.patches = Append(@, PatchUpdate(id, NativeViewOf(view)))]
              ELSE t1
        node == [view |-> view,
                 is_native |-> is_native,
                 superview |-> NoId,
                 nv_ancestor |-> NoId,
                 pos |-> nv_subregion_start,
                 len |-> 0,
                 state |-> t.nstate,
                 subviews |-> <<>>]
    IN [t2 EXCEPT !.nodes = MapInsert(@, id, node)]

(***************************************************************************)
(* ViewTree::remove_view.  The node is taken out of the map first, its     *)
(* Remove patch is pushed, then the subviews are removed; the node's state *)
(* is dropped when the function returns.                                   *)
(***************************************************************************)
RECURSIVE RemoveView(_, _, _)
RECURSIVE RemoveEach(_, _, _)
RemoveEach(t, ids, i) ==
    IF i > Len(ids) THEN t
    ELSE RemoveEach(RemoveView(t, ids[i], TRUE), ids, i + 1)

\* remove_view that leaves the subviews of the node in the map
RemoveView_NodeOnly(t, id, emit_patch) ==
    LET node == t.nodes[id]
        t1 == [t EXCEPT !.nodes = MapRemove(@, id)]
        t2 == IF emit_patch /\ node.is_native
              THEN [t1 EXCEPT !.patches = Append(@, PatchRemove(id))]
              ELSE t1
    IN [t2 EXCEPT !.log = Append(@, Call(t2, "drop_state", id, node.view))]

RemoveView(t, id, emit_patch) ==
    LET node == t.nodes[id]
        t1 == [t EXCEPT !.nodes = MapRemove(@, id)]
        t2 == IF emit_patch /\ node.is_native
              THEN [t1 EXCEPT !.patches = Append(@, PatchRemove(id))]
              ELSE t1
        t3 == RemoveEach(t2, node.subviews, 1)
    IN [t3 EXCEPT !.log = Append(@, Call(t3, "drop_state", id, node.view))]

(***************************************************************************)
(* ViewTree::replace_view                                                  *)
(***************************************************************************)
\* replace_view that takes out the node but not its subviews
ReplaceView_KeepsSubviews(t, id, view, nv_subregion_start) ==
    LET current == t.nodes[id]
        t0 == [t EXCEPT !.nodes = MapRemove(@, id)]
        t1 == [t0 EXCEPT !.log = Append(@, Call(t0, "drop_state", id, current.view))]
        t2 == AddView(t1, id, view, nv_subregion_start)
        t3 == [t2 EXCEPT !.nodes[id].is_native = NativeType(view),
                         !.nodes[id].superview = current.superview,
                         !.nodes[id].nv_ancestor = current.nv_ancestor]
    IN IF current.is_native /\ NativeType(view)
       THEN [t3 EXCEPT !.patches = Append(@, PatchReplace(id, NativeViewOf(view)))]
       ELSE IF current.is_native
       THEN [t3 EXCEPT !.patches = Append(@, PatchRemove(id))]
       ELSE IF NativeType(view)
       THEN [t3 EXCEPT !.patches = Append(@, PatchUpdate(id, NativeViewOf(view)))]
       ELSE t3

ReplaceView(t, id, view, nv_subregion_start) ==
    LET current == t.nodes[id]
        superview == current.superview
        nv_ancestor == current.nv_ancestor
        was_native == current.is_native
        is_native == NativeType(view)
        t1 == RemoveView(t, id, FALSE)
        t2 == AddView(t1, id, view, nv_subregion_start)
        t3 == [t2 EXCEPT !.nodes[id].is_native = is_native,
                         !.nodes[id].superview = superview,
                         !.nodes[id].nv_ancestor = nv_ancestor]
    IN IF was_native /\ is_native
       THEN [t3 EXCEPT !.patches = Append(@, PatchReplace(id, NativeViewOf(view)))]
       ELSE IF was_native
       THEN [t3 EXCEPT !.patches = Append(@, PatchRemove(id))]
       ELSE IF is_native
       THEN [t3 EXCEPT !.patches = Append(@, PatchUpdate(id, NativeViewOf(view)))]
       ELSE t3

(***************************************************************************)
(* ViewTree::update_view                                                   *)
(***************************************************************************)
\* update_view without the is_native test around the patch
UpdateView_PatchAlways(t, id, view) ==
    LET t1 == [t EXCEPT !.log = Append(@, Call(t, "will_update", id, view))]
        t2 == [t1 EXCEPT !.patches = Append(@, PatchUpdate(id, NativeViewOf(view)))]
    IN [t2 EXCEPT !.nodes[id].view = view]

UpdateView(t, id, view) ==
    LET node == t.nodes[id]
        t1 == [t EXCEPT !.log = Append(@, Call(t, "will_update", id, view))]
        t2 == IF node.is_native
              THEN [t1 EXCEPT !.patches = Append(@, PatchUpdate(id, NativeViewOf(view)))]
              ELSE t1
    IN [t2 EXCEPT !.nodes[id].view = view]

(***************************************************************************)
(* ViewTree::diff_subviews and ViewTree::diff.                             *)
(***************************************************************************)
\* the body normalised into the list diff_subviews iterates over:
\* a Fragment is its items, () is no subview, anything else is one subview
SubviewList(subview) ==
    IF subview.kind = "Fragment" THEN subview.sub
    ELSE IF subview.kind = "Unit" THEN <<>>
    ELSE <<subview>>

\* KeyOf that puts explicit keys and auto-keys into one number space
KeyOf_OneKeySpace(view, auto_key_counter) ==
    IF view.key # <<>> THEN <<"AutoKey", view.key[1]>>
    ELSE <<"AutoKey", auto_key_counter>>

\* KeyOf ignoring View::key()
KeyOf_IgnoresKey(view, auto_key_counter) == <<"AutoKey", auto_key_counter>>

\* enum Key { Key(u64), AutoKey(u64) } of a view, given the auto-key counter
KeyOf(view, auto_key_counter) ==
    IF view.key # <<>> THEN <<"Key", view.key[1]>>
    ELSE <<"AutoKey", auto_key_counter>>

\* NextAutoKey counting every sibling, keyed or not
NextAutoKey_CountsAll(view, auto_key_counter) == auto_key_counter + 1

\* NextAutoKey with the increment of the counter left out
NextAutoKey_NoIncrement(view, auto_key_counter) == auto_key_counter

\* the counter after keying a view
NextAutoKey(view, auto_key_counter) ==
    IF view.key # <<>> THEN auto_key_counter ELSE auto_key_counter + 1

\* current_subviews_by_id: key -> id over the superview's current subviews;
\* HashMap::insert overwrites an entry with the same key
RECURSIVE CurrentSubviewsById(_, _, _, _, _)
CurrentSubviewsById(nodes, ids, i, auto_key_counter, map) ==
    IF i > Len(ids) THEN map
    ELSE LET view == nodes[ids[i]].view
         IN CurrentSubviewsById(nodes, ids, i + 1,
                NextAutoKey(view, auto_key_counter),
                MapInsert(MapRemove(map, KeyOf(view, auto_key_counter)),
                          KeyOf(view, auto_key_counter), ids[i]))

\* the values of a map
MapValues(m) == {m[k] : k \in DOMAIN m}

RECURSIVE Diff(_, _, _, _)
RECURSIVE DiffSubviews(_, _, _, _)
RECURSIVE DiffLoop(_, _, _, _, _)

\* diff that leaves a renderable node's subregion length as diff_subviews
\* stored it
Diff_NativeLenOfList(t, id, view, nv_subregion_start) ==
    LET t0 == [t EXCEPT !.log = Append(@, Call(t, "diff", id, view))]
        t1 ==
          IF id \in DOMAIN t0.nodes
          THEN LET node == t0.nodes[id]
               IN IF SameTypeId(node.view, view) /\ IsSameType(node.view, view)
                  THEN \* same type; can be diffed
                       IF ~ViewEq(node.view, view) THEN UpdateView(t0, id, view) ELSE t0
                  ELSE \* different type; needs to be replaced
                       ReplaceView(t0, id, view, nv_subregion_start)
          ELSE \* does not exist; needs to be added
               AddView(t0, id, view, nv_subregion_start)
        node1 == t1.nodes[id]
        body == Body(node1.view)
        subview_subregion_start == IF node1.is_native THEN 0 ELSE nv_subregion_start
        Finish(o) ==
            IF o.t.nodes[id].is_native
            THEN [t |-> [o.t EXCEPT !.nodes[id].pos = nv_subregion_start],
                  nvs |-> <<id>>]
            ELSE [t |-> [o.t EXCEPT !.nodes[id].pos = nv_subregion_start,
                                    !.nodes[id].len = Len(o.nvs)],
                  nvs |-> o.nvs]
    IN { Finish(o) : o \in DiffSubviews(t1, id, body, subview_subregion_start) }

\* diff that starts the children of a renderable node at the node's own
\* subregion start
Diff_CursorNotReset(t, id, view, nv_subregion_start) ==
    LET t0 == [t EXCEPT !.log = Append(@, Call(t, "diff", id, view))]
        t1 ==
          IF id \in DOMAIN t0.nodes
          THEN LET node == t0.nodes[id]
               IN IF SameTypeId(node.view, view) /\ IsSameType(node.view, view)
                  THEN \* same type; can be diffed
                       IF ~ViewEq(node.view, view) THEN UpdateView(t0, id, view) ELSE t0
                  ELSE \* different type; needs to be replaced
                       ReplaceView(t0, id, view, nv_subregion_start)
          ELSE \* does not exist; needs to be added
               AddView(t0, id, view, nv_subregion_start)
        node1 == t1.nodes[id]
        body == Body(node1.view)
        subview_subregion_start == nv_subregion_start
        Finish(o) ==
            IF o.t.nodes[id].is_native
            THEN [t |-> [o.t EXCEPT !.nodes[id].pos = nv_subregion_start,
                                    !.nodes[id].len = 1],
                  nvs |-> <<id>>]
            ELSE [t |-> [o.t EXCEPT !.nodes[id].pos = nv_subregion_start,
                                    !.nodes[id].len = Len(o.nvs)],
                  nvs |-> o.nvs]
    IN { Finish(o) : o \in DiffSubviews(t1, id, body, subview_subregion_start) }

\* diff that trusts the TypeId and never asks View::is_same_type
Diff_TypeIdOnly(t, id, view, nv_subregion_start) ==
    LET t0 == [t EXCEPT !.log = Append(@, Call(t, "diff", id, view))]
        t1 ==
          IF id \in DOMAIN t0.nodes
          THEN LET node == t0.nodes[id]
               IN IF SameTypeId(node.view, view)
                  THEN \* same type; can be diffed
                       IF ~ViewEq(node.view, view) THEN UpdateView(t0, id, view) ELSE t0
                  ELSE \* different type; needs to be replaced
                       ReplaceView(t0, id, view, nv_subregion_start)
          ELSE \* does not exist; needs to be added
               AddView(t0, id, view, nv_subregion_start)
        node1 == t1.nodes[id]
        body == Body(node1.view)
        subview_subregion_start == IF node1.is_native THEN 0 ELSE nv_subregion_start
        Finish(o) ==
            IF o.t.nodes[id].is_native
            THEN [t |-> [o.t EXCEPT !.nodes[id].pos = nv_subregion_start,
                                    !.nodes[id].len = 1],
                  nvs |-> <<id>>]
            ELSE [t |-> [o.t EXCEPT !.nodes[id].pos = nv_subregion_start,
                                    !.nodes[id].len = Len(o.nvs)],
                  nvs |-> o.nvs]
    IN { Finish(o) : o \in DiffSubviews(t1, id, body, subview_subregion_start) }

\* the loop over the new subviews (view_tree.rs 341-377); ls is the loop's
\* state: t, current_subviews_by_id, auto_key_counter, new_subviews,
\* nv_subviews, nv_subregion_cursor
DiffLoop(ls, superview, nv_ancestor, subviews, i) ==
    IF i > Len(subviews) THEN {ls}
    ELSE
      LET view == subviews[i]
          key == KeyOf(view, ls.auto_key_counter)
          counter == NextAutoKey(view, ls.auto_key_counter)
      IN IF key \in DOMAIN ls.current
         THEN \* this new subview already has a corresponding old subview
           LET subview_id == ls.current[key]
           IN UNION {
                DiffLoop([t |-> o.t,
                          current |-> MapRemove(ls.current, key),
                          auto_key_counter |-> counter,
                          new_subviews |-> Append(ls.new_subviews, subview_id),
                          nv_subviews |-> ls.nv_subviews \o o.nvs,
                          cursor |-> ls.cursor + Len(o.nvs)],
                         superview, nv_ancestor, subviews, i + 1)
                : o \in Diff(ls.t, subview_id, view, ls.cursor) }
         ELSE \* no existing view with the same key, needs to be created
           LET subview_id == ls.t.next
               t1 == [ls.t EXCEPT !.next = @ + 1]
           IN UNION {
                DiffLoop([t |-> [o.t EXCEPT
                                   !.nodes[subview_id].superview = superview,
                                   !.nodes[subview_id].nv_ancestor = nv_ancestor],
                          current |-> ls.current,
                          auto_key_counter |-> counter,
                          new_subviews |-> Append(ls.new_subviews, subview_id),
                          nv_subviews |-> ls.nv_subviews \o o.nvs,
                          cursor |-> ls.cursor + Len(o.nvs)],
                         superview, nv_ancestor, subviews, i + 1)
                : o \in Diff(t1, subview_id, view, ls.cursor) }

DiffSubviews(t, superview, subview, nv_subregion_start) ==
    LET superview_node == t.nodes[superview]
        nv_ancestor == IF superview_node.is_native THEN superview
                       ELSE superview_node.nv_ancestor
        nv_subregion == [pos |-> superview_node.pos, len |-> superview_node.len]
        subviews == SubviewList(subview)
        current == CurrentSubviewsById(t.nodes, superview_node.subviews, 1, 0, EmptyMap)
        ls0 == [t |-> t, current |-> current, auto_key_counter |-> 0,
                new_subviews |-> <<>>, nv_subviews |-> <<>>,
                cursor |-> nv_subregion_start]
        Finish(ls, order) ==
            LET \* unused subviews need to be removed
                t1 == RemoveEach(ls.t, order, 1)
                t2 == IF nv_ancestor # NoId
                      THEN [t1 EXCEPT !.patches = Append(@,
                              PatchSubviewRegion(nv_ancestor, nv_subregion.pos,
                                                 nv_subregion.len, ls.nv_subviews))]
                      ELSE t1
            IN [t |-> [t2 EXCEPT !.nodes[superview].subviews = ls.new_subviews,
                                 !.nodes[superview].pos = nv_subregion_start,
                                 !.nodes[superview].len = Len(ls.nv_subviews)],
                nvs |-> ls.nv_subviews]
    IN UNION { { Finish(ls, order) : order \in Perms(MapValues(ls.current)) }
               : ls \in DiffLoop(ls0, superview, nv_ancestor, subviews, 1) }

Diff(t, id, view, nv_subregion_start) ==
    LET t0 == [t EXCEPT !.log = Append(@, Call(t, "diff", id, view))]
        t1 ==
          IF id \in DOMAIN t0.nodes
          THEN LET node == t0.nodes[id]
               IN IF SameTypeId(node.view, view) /\ IsSameType(node.view, view)
                  THEN \* same type; can be diffed
                       IF ~ViewEq(node.view, view) THEN UpdateView(t0, id, view) ELSE t0
                  ELSE \* different type; needs to be replaced
                       ReplaceView(t0, id, view, nv_subregion_start)
          ELSE \* does not exist; needs to be added
               AddView(t0, id, view, nv_subregion_start)
        node1 == t1.nodes[id]
        body == Body(node1.view)
        subview_subregion_start == IF node1.is_native THEN 0 ELSE nv_subregion_start
        Finish(o) ==
            IF o.t.nodes[id].is_native
            THEN [t |-> [o.t EXCEPT !.nodes[id].pos = nv_subregion_start,
                                    !.nodes[id].len = 1],
                  nvs |-> <<id>>]
            ELSE [t |-> [o.t EXCEPT !.nodes[id].pos = nv_subregion_start,
                                    !.nodes[id].len = Len(o.nvs)],
                  nvs |-> o.nvs]
    IN { Finish(o) : o \in DiffSubviews(t1, id, body, subview_subregion_start) }

(***************************************************************************)
(* The descriptor trees handed to render_root.  Keys are unique among the  *)
(* siblings of one list.                                                   *)
(***************************************************************************)
\* a Layer: native, renders its subviews as a Fragment
Layer(prop, key, subviews) == V("Layer", prop, key, <<Fragment(subviews)>>)
\* a Text: native, renders ()
Text(prop, key) == V("Text", prop, key, <<Unit>>)
\* composite views rendering the given body
Comp(prop, key, body) == V("Comp", prop, key, <<body>>)
Wrap(prop, key, body) == V("Wrap", prop, key, <<body>>)

None == <<>>
Some(k) == <<k>>

A == Layer(0, None, <<>>)
B == Comp(0, None, Text(0, None))
K1 == Layer(0, Some(1), <<>>)
K1p == Layer(1, Some(1), <<>>)
K1t == Text(0, Some(1))
K1c == Comp(0, Some(1), Fragment(<<Text(0, None), Layer(0, None, <<>>)>>))
K1d == Layer(0, Some(1), <<Text(0, None), Layer(0, None, <<Text(0, None)>>)>>)
K2 == Text(0, Some(2))
K3 == Comp(0, Some(3), Text(0, None))
K9 == Layer(0, Some(9), <<>>)

RECURSIVE Orderings(_)
Orderings(S) ==
    IF S = {} THEN {<<>>}
    ELSE UNION {{<<x>> \o p : p \in Orderings(S \ {x})} : x \in S}

Lists ==
    { <<>>, <<A>>, <<A, B>>, <<A, K9, B>>, <<K9, A, B>>, <<A, B, K9>>,
      <<K2>>, <<K1p, K2>>, <<K1t, K2>>, <<K1c, K2>>, <<K1d, K2>> }
    \cup Orderings({K1, K2}) \cup Orderings({K1, K2, K3})

RootViews ==
    { Layer(0, None, l) : l \in Lists }
    \cup { Comp(0, None, Fragment(l)) : l \in Lists }
    \cup { Unit, Text(0, None), Text(1, None), Wrap(0, None, Layer(0, None, <<A, B>>)) }

(***************************************************************************)
(* The state: the fields of ViewTree, the source of fresh ViewIds and      *)
(* state objects, and what an observer of one pass sees.                   *)
(***************************************************************************)
VARIABLES
    nodes,      \* ViewTree::nodes
    root,       \* ViewTree::root
    patches,    \* ViewTree::patches
    next,       \* the next ViewId ViewId::new() returns
    nstate,     \* the next state object View::new_state returns
    passes,     \* number of render_root calls so far
    arg,        \* the view given to the last render_root
    log,        \* the calls made during the last render_root, in order
    old,        \* nodes, root, patches, next, nstate, arg before the last render_root
    nv_nodes,   \* NVTree::nodes
    next_ref,   \* the next handle Backend::new_view returns
    calls,      \* the backend calls made by the last NVTree::patch, in order
    result,     \* what the last NVTree::patch returned
    applied,    \* the patch given to the last NVTree::patch
    steps,      \* number of NVTree::patch calls so far
    nv_old,     \* NVTree::nodes before the last NVTree::patch
    taken,      \* the patches the iterator of ViewTree::patches has returned, in order
    emitted,    \* the patches render_root has enqueued, in order
    host,       \* Host: its event channel and the progress of Host::poll
    legacy      \* the ViewTree of src/tree.rs and the progress of its driver

vt_vars == <<nodes, root, patches, next, nstate, passes, arg, log, old>>
nv_vars == <<nv_nodes, next_ref, calls, result, applied, steps, nv_old>>
queue_vars == <<taken, emitted>>
host_vars == <<host>>
legacy_vars == <<legacy>>
ext_vars == <<queue_vars, host_vars, legacy_vars>>
vars == <<vt_vars, nv_vars, ext_vars>>

\* results of NVTree::patch: Ok(()) or a PatchError, or a panic
Ok == [tag |-> "Ok", id |-> NoId]
NoSuchView(id) == [tag |-> "NoSuchView", id |-> id]
\* PatchError::BackendError(err)
BackendError(err) == [tag |-> "BackendError", id |-> NoId, err |-> err]
Cycle(id) == [tag |-> "Cycle", id |-> id]
Panic == [tag |-> "Panic", id |-> NoId]

\* the first handle the backend hands out
FirstRef == 101

\* everything about the applier except its node map, before the first patch
NVTreeIdle ==
    /\ calls = <<>>
    /\ result = Ok
    /\ applied = PatchSetRoot(NoId)
    /\ steps = 0
    /\ nv_old = EmptyMap

\* NVTree::new
NVTreeNew ==
    /\ nv_nodes = EmptyMap
    /\ next_ref = FirstRef
    /\ NVTreeIdle

\* ViewTree::new
ViewTreeNew ==
    /\ nodes = EmptyMap
    /\ root = NoId
    /\ patches = <<>>
    /\ next = 1
    /\ nstate = 1
    /\ passes = 0
    /\ arg = Unit
    /\ log = <<>>
    /\ old = [nodes |-> EmptyMap, patches |-> <<>>, next |-> 1, nstate |-> 1,
              arg |-> Unit, root |-> NoId]

\* nothing enqueued and nothing taken yet
QueueNew ==
    /\ taken = <<>>
    /\ emitted = <<>>

\* Host::new: an unbounded channel whose sender the native side holds, no
\* poll() begun
\*   channel  : the events sent and not yet received
\*   sender   : whether the Sender is alive
\*   pc       : "idle", "polling", "returned", "panicked" or "dropped"
\*   backlog  : the channel when the last poll() began
\*   received : the events the last poll() handed to recv_raw_event
\*   sent     : number of events sent so far
HostNew ==
    host = [channel |-> <<>>, sender |-> TRUE, pc |-> "idle",
            backlog |-> <<>>, received |-> <<>>, sent |-> 0]

\* no tree of src/tree.rs constructed yet
\*   pc       : "none" before ViewTree::new, then "new", "rendered" after a
\*              diff_render returned, "panicked" after one panicked
\*   rendered : the identity given to the last top-level diff_render
\*   renders  : number of top-level diff_render calls so far
\*   before   : the fields of the tree before the last top-level diff_render
LegacyNone ==
    legacy = [pc |-> "none", root |-> NoId, test_root |-> NoId,
              pending_root_render |-> FALSE,
              views |-> EmptyMap, event_handlers |-> {}, states |-> EmptyMap,
              parents |-> EmptyMap, subviews |-> EmptyMap,
              native_ancestors |-> EmptyMap, patches |-> <<>>,
              next |-> 1, nstate |-> 1, rendered |-> NoId, renders |-> 0,
              before |-> [views |-> EmptyMap, states |-> EmptyMap,
                          parents |-> EmptyMap, subviews |-> EmptyMap,
                          event_handlers |-> {}]]

Init == ViewTreeNew /\ NVTreeNew /\ QueueNew /\ HostNew /\ LegacyNone

\* the results of ViewTree::render_root(view)
RenderRootResults(t, r, view) ==
    IF r # NoId
    THEN { [t |-> o.t, root |-> r] : o \in Diff(t, r, view, 0) }
    ELSE LET root_id == t.next
             t1 == [t EXCEPT !.next = @ + 1]
         IN { [t |-> [o.t EXCEPT !.patches = Append(@, PatchSetRoot(root_id))],
               root |-> root_id]
              : o \in Diff(t1, root_id, view, 0) }

\* ViewTree::render_root(view)
RenderRootCall(view) ==
    /\ passes < MaxPasses
    /\ \E res \in RenderRootResults(
                     [nodes |-> nodes, patches |-> patches, next |-> next,
                      nstate |-> nstate, log |-> <<>>], root, view) :
          /\ nodes' = res.t.nodes
          /\ patches' = res.t.patches
          /\ next' = res.t.next
          /\ nstate' = res.t.nstate
          /\ log' = res.t.log
          /\ root' = res.root
    /\ passes' = passes + 1
    /\ arg' = view
    /\ old' = [nodes |-> nodes, patches |-> patches, next |-> next,
               nstate |-> nstate, arg |-> arg, root |-> root]

RenderRoot(view) ==
    /\ RenderRootCall(view)
    /\ UNCHANGED <<nv_vars, ext_vars>>

Next == \E view \in RootViews : RenderRoot(view)

Spec == Init /\ [][Next]_vars

(***************************************************************************)
(* Vocabulary of the properties.                                           *)
(***************************************************************************)
\* the patches enqueued by the last render_root
NewPatches == SubSeq(patches, Len(old.patches) + 1, Len(patches))

\* the number of entries of a sequence that satisfy a test
Count(seq, Test(_)) == Cardinality({i \in DOMAIN seq : Test(seq[i])})

\* the number of patches of the last pass with this op for this identity
PatchCount(op, id) == Count(NewPatches, LAMBDA p : p.op = op /\ p.id = id)

\* the number of calls of the last pass with this name for this identity
CallCount(ev, id) == Count(log, LAMBDA c : c.ev = ev /\ c.id = id)

\* the calls diff(id, view) of the last pass that found a node for id
DiffsOfExisting ==
    {i \in DOMAIN log : log[i].ev = "diff" /\ log[i].id \in DOMAIN old.nodes}

\* the last pass rendered again the tree that was already rendered
Rerendered == passes >= 2 /\ arg = old.arg

\* C1 (as claimed): rendering an equal descriptor tree a second time
\* enqueues no patch, the queue holds exactly what it held before.
C1_RerenderEnqueuesNothing == Rerendered => patches = old.patches

\* C2: rendering an equal descriptor tree again keeps the set of ViewIds,
\* every node's ordered subview list and every state object, mints no id and
\* calls neither new_state nor will_update (and drops no state).
C2_RerenderKeepsIdentities ==
    Rerendered =>
        /\ DOMAIN nodes = DOMAIN old.nodes
        /\ \A id \in DOMAIN nodes :
              /\ nodes[id].subviews = old.nodes[id].subviews
              /\ nodes[id].state = old.nodes[id].state
        /\ next = old.next
        /\ \A i \in DOMAIN log :
              log[i].ev \notin {"new_state", "will_update", "drop_state"}

\* a tree with keyed and unkeyed siblings and a composite was rendered again
C2_Witness ==
    /\ Rerendered
    /\ arg = Layer(0, None, <<A, K9, B>>)
    /\ Cardinality(DOMAIN nodes) = 5

\* the diff of log entry i found a node of the same kind whose stored view
\* differs from the new one
IsUpdateCase(i) ==
    /\ i \in DiffsOfExisting
    /\ old.nodes[log[i].id].view.kind = log[i].view.kind
    /\ \/ old.nodes[log[i].id].view.prop # log[i].view.prop
       \/ old.nodes[log[i].id].view.sub # log[i].view.sub

\* C3: when diff finds a node of the same kind whose stored view is not equal
\* to the new one, will_update is called exactly once on the existing state
\* with the new view, one Update patch is enqueued for the identity if it is
\* native and none otherwise, no Remove or Replace patch is enqueued for it,
\* and the state object is kept.
C3_UpdateInPlace ==
    \A i \in DOMAIN log :
        IsUpdateCase(i) =>
            LET id == log[i].id
            IN /\ CallCount("will_update", id) = 1
               /\ \A j \in DOMAIN log :
                     (log[j].ev = "will_update" /\ log[j].id = id)
                         => log[j].view = log[i].view
               /\ PatchCount("Update", id) = (IF old.nodes[id].is_native THEN 1 ELSE 0)
               /\ \A k \in DOMAIN NewPatches :
                     (NewPatches[k].op = "Update" /\ NewPatches[k].id = id)
                         => NewPatches[k].nv = NativeViewOf(log[i].view)
               /\ PatchCount("Remove", id) = 0
               /\ PatchCount("Replace", id) = 0
               /\ id \in DOMAIN nodes
               /\ nodes[id].state = old.nodes[id].state
               /\ CallCount("new_state", id) = 0
               /\ CallCount("drop_state", id) = 0

\* one pass updated a composite node and a native node in place
C3_Witness ==
    /\ \E i \in DOMAIN log : IsUpdateCase(i) /\ old.nodes[log[i].id].is_native
    /\ \E i \in DOMAIN log : IsUpdateCase(i) /\ ~old.nodes[log[i].id].is_native

\* the diff of log entry i found a node of another kind
IsReplaceCase(i) ==
    /\ i \in DiffsOfExisting
    /\ old.nodes[log[i].id].view.kind # log[i].view.kind

\* C4 (as claimed): when a native node gets a view of another native kind,
\* the patches enqueued for its identity are exactly one Replace patch, no
\* Update and no Remove.
C4_NativeKindChangeOneReplace ==
    \A i \in DOMAIN log :
        (/\ IsReplaceCase(i)
         /\ old.nodes[log[i].id].is_native
         /\ NativeType(log[i].view))
        => /\ PatchCount("Replace", log[i].id) = 1
           /\ PatchCount("Update", log[i].id) = 0
           /\ PatchCount("Remove", log[i].id) = 0

\* C5 (as claimed): when the kind changes and native-ness flips, a node that
\* was native gets exactly one Remove and no payload patch, and a node that
\* becomes native gets exactly one Update and no Remove or Replace patch.
C5_FlipPatches ==
    \A i \in DOMAIN log :
        IsReplaceCase(i) =>
            LET id == log[i].id
                was_native == old.nodes[id].is_native
                is_native == NativeType(log[i].view)
            IN /\ (was_native /\ ~is_native) =>
                      /\ PatchCount("Remove", id) = 1
                      /\ PatchCount("Update", id) = 0
                      /\ PatchCount("Replace", id) = 0
               /\ (~was_native /\ is_native) =>
                      /\ PatchCount("Update", id) = 1
                      /\ PatchCount("Remove", id) = 0
                      /\ PatchCount("Replace", id) = 0

\* the identities below id in a node map
RECURSIVE Descendants(_, _)
Descendants(ns, id) ==
    LET kids == {ns[id].subviews[j] : j \in DOMAIN ns[id].subviews}
    IN kids \cup UNION {Descendants(ns, c) : c \in kids \cap DOMAIN ns}

\* C6: on a kind change the node keeps its identity, its superview, its
\* nv_ancestor and its place in the superview's subviews (the position of its
\* new view in the superview's body), its old state is dropped and new_state
\* is called exactly once, and every identity of its old subtree is gone.
C6_ReplaceKeepsLinks ==
    \A i \in DOMAIN log :
        IsReplaceCase(i) =>
            LET id == log[i].id
                sup == old.nodes[id].superview
            IN /\ id \in DOMAIN nodes
               /\ nodes[id].view = log[i].view
               /\ nodes[id].superview = sup
               /\ nodes[id].nv_ancestor = old.nodes[id].nv_ancestor
               /\ sup # NoId =>
                     /\ sup \in DOMAIN nodes
                     /\ Count(nodes[sup].subviews, LAMBDA c : c = id) = 1
                     /\ \E j \in DOMAIN nodes[sup].subviews :
                           /\ nodes[sup].subviews[j] = id
                           /\ SubviewList(Body(nodes[sup].view))[j] = log[i].view
               /\ CallCount("drop_state", id) = 1
               /\ CallCount("new_state", id) = 1
               /\ nodes[id].state >= old.nstate
               /\ Descendants(old.nodes, id) \cap DOMAIN nodes = {}
               /\ \A d \in Descendants(old.nodes, id) : CallCount("diff", d) = 0

\* a node with a superview and with descendants of its own changed kind
C6_Witness ==
    \E i \in DOMAIN log :
        /\ IsReplaceCase(i)
        /\ old.nodes[log[i].id].superview # NoId
        /\ Cardinality(Descendants(old.nodes, log[i].id)) >= 2
        /\ Cardinality(Descendants(nodes, log[i].id)) >= 1

\* the diff of log entry i found a node of the same kind (update or no change)
IsSameKindCase(i) ==
    /\ i \in DiffsOfExisting
    /\ old.nodes[log[i].id].view.kind = log[i].view.kind

\* the views of the subviews a node had before the pass, in order
OldSubviewViews(id) ==
    [j \in DOMAIN old.nodes[id].subviews |-> old.nodes[old.nodes[id].subviews[j]].view]

\* the list of views the node of log entry i reconciles its subviews against
NewSubviewViews(i) == SubviewList(Body(log[i].view))

\* the new list of log entry i is a permutation of the old subviews' views,
\* all of them explicitly keyed
IsKeyedPermutation(i) ==
    /\ IsSameKindCase(i)
    /\ LET olds == OldSubviewViews(log[i].id)
           news == NewSubviewViews(i)
       IN /\ Len(olds) = Len(news)
          /\ Len(olds) >= 2
          /\ \A j \in DOMAIN olds : olds[j].key # None
          /\ \A j, k \in DOMAIN olds : j # k => olds[j].key # olds[k].key
          /\ {olds[j] : j \in DOMAIN olds} = {news[j] : j \in DOMAIN news}

IsRootSwap ==
    /\ passes >= 2
    /\ NativeType(old.arg)
    /\ arg.kind = old.arg.kind /\ arg.prop = old.arg.prop /\ arg.key = old.arg.key
    /\ LET olds == SubviewList(Body(old.arg))
           news == SubviewList(Body(arg))
       IN /\ Len(olds) = 2
          /\ news = <<olds[2], olds[1]>>
          /\ \A j \in 1..2 : olds[j].key # None /\ NativeType(olds[j])
          /\ olds[1].key # olds[2].key

\* C8 (as claimed): a pass whose only change is the swap of two keyed native
\* siblings under a native parent enqueues exactly one SubviewRegion patch,
\* for the parent, listing the two identities in the swapped order.
C8_SwapOneSubviewRegion ==
    IsRootSwap =>
        /\ Count(NewPatches, LAMBDA p : p.op = "SubviewRegion") = 1
        /\ \A k \in DOMAIN NewPatches :
              NewPatches[k].op = "SubviewRegion" =>
                  /\ NewPatches[k].id = root
                  /\ NewPatches[k].subs = <<old.nodes[root].subviews[2],
                                            old.nodes[root].subviews[1]>>

\* the entries of a sequence that satisfy a test, in order
Filter(seq, Test(_)) == SelectSeq(seq, Test)

C10_RemovePostOrder ==
    \A j, k \in DOMAIN NewPatches :
        (/\ j < k
         /\ NewPatches[j].op = "Remove"
         /\ NewPatches[k].op = "Remove"
         /\ NewPatches[j].id \in DOMAIN old.nodes)
        => NewPatches[k].id \notin Descendants(old.nodes, NewPatches[j].id)


(***************************************************************************)
(* State hooks.  The calls made on a node's state during a pass are in     *)
(* log: new_state when add_view creates it, will_update from update_view,  *)
(* drop_state when remove_view lets it go.                                 *)
(***************************************************************************)
\* the number of calls ev on the state of id among the first n of the pass
CallsBefore(ev, id, n) ==
    Cardinality({j \in 1..n : log[j].ev = ev /\ log[j].id = id})

\* C11 (as claimed): every state that is dropped in a pass was told
\* will_disappear exactly once, before the drop.
C11_WillDisappearBeforeDrop ==
    \A i \in DOMAIN log :
        log[i].ev = "drop_state"
        => CallsBefore("will_disappear", log[i].id, i)
               = CallsBefore("drop_state", log[i].id, i)

\* C12 (as claimed): every state that is created in a pass is told
\* will_appear exactly once, before a patch is enqueued after its creation.
C12_WillAppearBeforePatch ==
    \A i \in DOMAIN log :
        log[i].ev = "new_state"
        => /\ CallsBefore("will_appear", log[i].id, Len(log))
                  = CallsBefore("new_state", log[i].id, Len(log))
           /\ \E j \in DOMAIN log :
                  /\ j > i
                  /\ log[j].ev = "will_appear"
                  /\ log[j].id = log[i].id
                  /\ log[j].at = log[i].at


(***************************************************************************)
(* The native tree applier (core/src/nv_tree.rs).                          *)
(*                                                                         *)
(* A patch is applied to s = [nodes, next_ref, calls, fail]:               *)
(*   nodes    : NVTree::nodes, id -> NVTNode                               *)
(*   next_ref : the next handle Backend::new_view returns                  *)
(*   calls    : the backend calls made so far by this patch()              *)
(*   fail     : the backend call of this patch() that returns Err          *)
(*              (0: every call returns Ok)                                 *)
(* and every function returns [s, res, ref]: the state it leaves, its      *)
(* Result, and the handle inside Ok(Some(handle)) where there is one.      *)
(***************************************************************************)
NoRef == 0

NVTNode(view, backing_ref, superview, subviews) ==
    [view |-> view, backing_ref |-> backing_ref,
     superview |-> superview, subviews |-> subviews]

Return(s, res, ref) == [s |-> s, res |-> res, ref |-> ref]

\* the values of Backend::Error; s.err is the one the failing call returns
BackendErrors == {"E1", "E2"}
NoError == "none"

\* whether the backend call made next returns Err
Fails(s) == Len(s.calls) + 1 = s.fail

\* a call of a Backend method
Called(s, fn, ref, view, region) ==
    [s EXCEPT !.calls = Append(@, [fn |-> fn, ref |-> ref, view |-> view,
                                   region |-> region, ok |-> ~Fails(s),
                                   err |-> IF Fails(s) THEN s.err ELSE NoError])]

NoRegion == [offset |-> 0, len |-> 0, refs |-> <<>>]

(***************************************************************************)
(* NVTree::set_root                                                        *)
(***************************************************************************)
\* set_root that calls the backend a second time when the first call fails
NVSetRoot_Retries(s, id) ==
    IF id \in DOMAIN s.nodes
    THEN LET s1 == Called(s, "set_root_view", s.nodes[id].backing_ref, NoPayload, NoRegion)
         IN IF Fails(s)
            THEN Return(Called(s1, "set_root_view", s.nodes[id].backing_ref,
                               NoPayload, NoRegion),
                        IF Fails(s1) THEN BackendError(s1.err) ELSE Ok, NoRef)
            ELSE Return(s1, Ok, NoRef)
    ELSE Return(s, NoSuchView(id), NoRef)

NVSetRoot(s, id) ==
    IF id \in DOMAIN s.nodes
    THEN Return(Called(s, "set_root_view", s.nodes[id].backing_ref, NoPayload, NoRegion),
                IF Fails(s) THEN BackendError(s.err) ELSE Ok, NoRef)
    ELSE Return(s, NoSuchView(id), NoRef)

(***************************************************************************)
(* NVTree::update_view; bref is NoRef for None                             *)
(***************************************************************************)
\* update_view that stores the payload before it calls the backend
NVUpdateView_StoresFirst(s, id, view, bref) ==
    IF id \in DOMAIN s.nodes
    THEN LET s1 == Called(s, "update_view", s.nodes[id].backing_ref, view, NoRegion)
         IN Return([s1 EXCEPT !.nodes[id].view = view],
                   IF Fails(s) THEN BackendError(s.err) ELSE Ok, NoRef)
    ELSE IF bref # NoRef
    THEN Return([s EXCEPT !.nodes = MapInsert(@, id, NVTNode(view, bref, NoId, <<>>))],
                Ok, NoRef)
    ELSE LET s1 == Called(s, "new_view", NoRef, view, NoRegion)
         IN Return([s1 EXCEPT !.nodes = MapInsert(@, id,
                                  NVTNode(view, s.next_ref, NoId, <<>>)),
                              !.next_ref = @ + 1],
                   IF Fails(s) THEN BackendError(s.err) ELSE Ok, NoRef)

NVUpdateView(s, id, view, bref) ==
    IF id \in DOMAIN s.nodes
    THEN LET s1 == Called(s, "update_view", s.nodes[id].backing_ref, view, NoRegion)
         IN IF Fails(s)
            THEN Return(s1, BackendError(s.err), NoRef)
            ELSE Return([s1 EXCEPT !.nodes[id].view = view], Ok, NoRef)
    ELSE IF bref # NoRef
    THEN Return([s EXCEPT !.nodes = MapInsert(@, id, NVTNode(view, bref, NoId, <<>>))],
                Ok, NoRef)
    ELSE LET s1 == Called(s, "new_view", NoRef, view, NoRegion)
         IN IF Fails(s)
            THEN Return(s1, BackendError(s.err), NoRef)
            ELSE Return([s1 EXCEPT !.nodes = MapInsert(@, id,
                                       NVTNode(view, s.next_ref, NoId, <<>>)),
                                   !.next_ref = @ + 1],
                        Ok, NoRef)

(***************************************************************************)
(* NVTree::remove_view                                                     *)
(***************************************************************************)
\* remove_view that releases the node's handle before it removes the subviews
RECURSIVE NVRemoveView_ParentFirst(_, _, _)
RECURSIVE NVRemoveEach_ParentFirst(_, _, _)
NVRemoveEach_ParentFirst(s, ids, i) ==
    IF i > Len(ids) THEN Return(s, Ok, NoRef)
    ELSE LET r == NVRemoveView_ParentFirst(s, ids[i], TRUE)
         IN IF r.res # Ok THEN r ELSE NVRemoveEach_ParentFirst(r.s, ids, i + 1)

NVRemoveView_ParentFirst(s, id, dispatch) ==
    IF id \in DOMAIN s.nodes
    THEN LET node == s.nodes[id]
             s1 == [s EXCEPT !.nodes = MapRemove(@, id)]
             s2 == IF dispatch
                   THEN Called(s1, "remove_view", node.backing_ref, NoPayload, NoRegion)
                   ELSE s1
         IN IF dispatch /\ Fails(s1) THEN Return(s2, BackendError(s1.err), NoRef)
            ELSE LET r == NVRemoveEach_ParentFirst(s2, node.subviews, 1)
                 IN IF r.res # Ok THEN r
                    ELSE Return(r.s, Ok, IF dispatch THEN NoRef ELSE node.backing_ref)
    ELSE Return(s, NoSuchView(id), NoRef)

\* remove_view that also takes the id out of the child lists that hold it
RECURSIVE NVRemoveView_Unlinks(_, _, _)
RECURSIVE NVRemoveEach_Unlinks(_, _, _)
NVRemoveEach_Unlinks(s, ids, i) ==
    IF i > Len(ids) THEN Return(s, Ok, NoRef)
    ELSE LET r == NVRemoveView_Unlinks(s, ids[i], TRUE)
         IN IF r.res # Ok THEN r ELSE NVRemoveEach_Unlinks(r.s, ids, i + 1)

NVRemoveView_Unlinks(s, id, dispatch) ==
    IF id \in DOMAIN s.nodes
    THEN LET node == s.nodes[id]
             rest == MapRemove(s.nodes, id)
             unlinked == [x \in DOMAIN rest |->
                            [rest[x] EXCEPT !.subviews =
                                 SelectSeq(@, LAMBDA c : c # id)]]
             r == NVRemoveEach_Unlinks([s EXCEPT !.nodes = unlinked], node.subviews, 1)
         IN IF r.res # Ok THEN r
            ELSE IF dispatch
            THEN Return(Called(r.s, "remove_view", node.backing_ref, NoPayload, NoRegion),
                        IF Fails(r.s) THEN BackendError(r.s.err) ELSE Ok, NoRef)
            ELSE Return(r.s, Ok, node.backing_ref)
    ELSE Return(s, NoSuchView(id), NoRef)

RECURSIVE NVRemoveView(_, _, _)
RECURSIVE NVRemoveEach(_, _, _)
\* the loop over node.subviews, left at the first Err
NVRemoveEach(s, ids, i) ==
    IF i > Len(ids) THEN Return(s, Ok, NoRef)
    ELSE LET r == NVRemoveView(s, ids[i], TRUE)
         IN IF r.res # Ok THEN r ELSE NVRemoveEach(r.s, ids, i + 1)

NVRemoveView(s, id, dispatch) ==
    IF id \in DOMAIN s.nodes
    THEN LET node == s.nodes[id]
             r == NVRemoveEach([s EXCEPT !.nodes = MapRemove(@, id)], node.subviews, 1)
         IN IF r.res # Ok THEN r
            ELSE IF dispatch
            THEN Return(Called(r.s, "remove_view", node.backing_ref, NoPayload, NoRegion),
                        IF Fails(r.s) THEN BackendError(r.s.err) ELSE Ok, NoRef)
            ELSE Return(r.s, Ok, node.backing_ref)
    ELSE Return(s, NoSuchView(id), NoRef)

(***************************************************************************)
(* NVTree::replace_view                                                    *)
(***************************************************************************)
\* replace_view that stores the payload and leaves the subtree alone
NVReplaceView_InPlace(s, id, view) ==
    IF id \in DOMAIN s.nodes
    THEN Return([s EXCEPT !.nodes[id].view = view], Ok, NoRef)
    ELSE Return(s, NoSuchView(id), NoRef)

NVReplaceView(s, id, view) ==
    LET r == NVRemoveView(s, id, FALSE)
    IN IF r.res # Ok THEN r ELSE NVUpdateView(r.s, id, view, r.ref)

(***************************************************************************)
(* Vec operations with their bounds checks; indices count from 0 as in the *)
(* source.  A result is [panic, v].                                        *)
(***************************************************************************)
Vec(v) == [panic |-> FALSE, v |-> v]
Panicked == [panic |-> TRUE, v |-> <<>>]

\* v[index] = x
VecSet(v, index, x) ==
    IF index >= Len(v) THEN Panicked
    ELSE Vec([v EXCEPT ![index + 1] = x])

\* Vec::remove(index)
VecRemove(v, index) ==
    IF index >= Len(v) THEN Panicked
    ELSE Vec(SubSeq(v, 1, index) \o SubSeq(v, index + 2, Len(v)))

\* Vec::insert(index, x)
VecInsert(v, index, x) ==
    IF index > Len(v) THEN Panicked
    ELSE Vec(SubSeq(v, 1, index) \o <<x>> \o SubSeq(v, index + 1, Len(v)))

(***************************************************************************)
(* NVTree::subview_region                                                  *)
(***************************************************************************)
\* lines 169-175: every listed subview gets its superview set, up to the
\* first one that is not in the map
RECURSIVE SetSuperviews(_, _, _, _)
SetSuperviews(s, id, subviews, i) ==
    IF i > Len(subviews) THEN Return(s, Ok, NoRef)
    ELSE IF subviews[i] \notin DOMAIN s.nodes
    THEN Return(s, NoSuchView(subviews[i]), NoRef)
    ELSE SetSuperviews([s EXCEPT !.nodes[subviews[i]].superview = id],
                       id, subviews, i + 1)

\* lines 211-213: for (i, j) in (offset..len).zip(0..subviews.len())
RECURSIVE Overwrite(_, _, _, _, _)
Overwrite(w, offset, len, subviews, j) ==
    IF w.panic \/ offset + j >= len \/ j >= Len(subviews) THEN w
    ELSE Overwrite(VecSet(w.v, offset + j, subviews[j + 1]),
                   offset, len, subviews, j + 1)

\* lines 214-219: for _ in subviews.len()..len
RECURSIVE RemoveSurplus(_, _, _)
RemoveSurplus(w, index, count) ==
    IF w.panic \/ count <= 0 THEN w
    ELSE RemoveSurplus(VecRemove(w.v, index), index, count - 1)

\* lines 220-227: for i in len..subviews.len()
RECURSIVE InsertExtra(_, _, _, _)
InsertExtra(w, index, subviews, i) ==
    IF w.panic \/ i >= Len(subviews) THEN w
    ELSE InsertExtra(VecInsert(w.v, index, subviews[i + 1]), index, subviews, i + 1)

\* lines 208-228: the update of the stored list
UpdateOwnList(list, offset, len, subviews) ==
    LET n == Len(subviews)
        w1 == Overwrite(Vec(list), offset, len, subviews, 0)
        w2 == IF n < len THEN RemoveSurplus(w1, offset + n, len - n) ELSE w1
    IN IF n > len THEN InsertExtra(w2, offset + n, subviews, len) ELSE w2

NVSubviewRegion(s, id, offset, len, subviews) ==
    LET r1 == SetSuperviews(s, id, subviews, 1)
    IN IF r1.res # Ok THEN r1
       ELSE IF id \notin DOMAIN r1.s.nodes THEN Return(r1.s, NoSuchView(id), NoRef)
       ELSE
       LET superview_node == r1.s.nodes[id]
           s2 == [r1.s EXCEPT !.nodes = MapRemove(@, id)]
           missing == {j \in DOMAIN subviews : subviews[j] \notin DOMAIN s2.nodes}
       IN IF missing # {}
          THEN Return(s2, Cycle(subviews[CHOOSE j \in missing :
                                             \A k \in missing : j <= k]), NoRef)
          ELSE
          LET subview_refs == [j \in DOMAIN subviews |->
                                  s2.nodes[subviews[j]].backing_ref]
              s3 == Called(s2, "set_subviews", superview_node.backing_ref, NoPayload,
                           [offset |-> offset, len |-> len, refs |-> subview_refs])
              w == UpdateOwnList(superview_node.subviews, offset, len, subviews)
          IN IF Fails(s2) THEN Return(s3, BackendError(s2.err), NoRef)
             ELSE IF w.panic THEN Return(s3, Panic, NoRef)
             ELSE Return([s3 EXCEPT !.nodes = MapInsert(@, id,
                                       [superview_node EXCEPT !.subviews = w.v])],
                         Ok, NoRef)

(***************************************************************************)
(* NVTree::patch                                                           *)
(***************************************************************************)
NVTreePatch(s, patch) ==
    CASE patch.op = "SetRoot" -> NVSetRoot(s, patch.id)
      [] patch.op = "Update" -> NVUpdateView(s, patch.id, patch.nv, NoRef)
      [] patch.op = "Replace" -> NVReplaceView(s, patch.id, patch.nv)
      [] patch.op = "SubviewRegion" ->
             NVSubviewRegion(s, patch.id, patch.pos, patch.len, patch.subs)
      [] patch.op = "Remove" -> NVRemoveView(s, patch.id, TRUE)

(***************************************************************************)
(* The applier on its own: patches from a small universe are given to a    *)
(* new NVTree, and any one backend call of a patch may fail.  A panic ends *)
(* the process.                                                            *)
(***************************************************************************)
\* number of NVTree::patch calls in a behaviour
MaxNVSteps == 3

NVIds == {1, 2, 3}
NVPayloads == {[kind |-> "Layer", prop |-> 0], [kind |-> "Layer", prop |-> 1]}
\* the (offset, length) pairs of the SubviewRegion patches
Regions == {<<0, 0>>, <<0, 1>>, <<1, 1>>}
\* their new child lists
IdLists == {<<>>, <<1>>, <<2>>, <<3>>, <<2, 3>>}

NVPatches ==
    {PatchSetRoot(id) : id \in NVIds}
    \cup {PatchUpdate(id, nv) : id \in NVIds, nv \in NVPayloads}
    \cup {PatchReplace(id, nv) : id \in NVIds, nv \in NVPayloads}
    \cup {PatchRemove(id) : id \in NVIds}
    \cup {PatchSubviewRegion(id, r[1], r[2], subs) :
              id \in NVIds, r \in Regions, subs \in IdLists}

\* which backend call of a patch fails; 0 for none
FailAt == {0, 1}

\* NVTree::patch(patch)
\* NVTree::patch(patch) with a backend whose fail-th call returns Err(err)
NVPatchWith(patch, fail, err) ==
    /\ result # Panic
    /\ LET r == NVTreePatch([nodes |-> nv_nodes, next_ref |-> next_ref,
                             calls |-> <<>>, fail |-> fail, err |-> err], patch)
       IN /\ nv_nodes' = r.s.nodes
          /\ next_ref' = r.s.next_ref
          /\ calls' = r.s.calls
          /\ result' = r.res
    /\ applied' = patch
    /\ steps' = steps + 1
    /\ nv_old' = nv_nodes

NVPatchCall(patch, fail) == NVPatchWith(patch, fail, "E1")

NVPatch(patch, fail) ==
    /\ steps < MaxNVSteps
    /\ NVPatchCall(patch, fail)
    /\ UNCHANGED <<vt_vars, ext_vars>>

NextNV == \E patch \in NVPatches, fail \in FailAt : NVPatch(patch, fail)

SpecNV == Init /\ [][NextNV]_vars

(***************************************************************************)
(* The applier's functions over node maps that hold children: the maps are *)
(* drawn at the start, as a run of SubviewRegion patches that splice as    *)
(* documented would have left them, and the same patches are applied.      *)
(***************************************************************************)
\* the node map of a forest given by its child lists
Forest(lists) ==
    [id \in DOMAIN lists |->
        NVTNode([kind |-> "Layer", prop |-> 0],
                FirstRef + id - 1,
                IF \E p \in DOMAIN lists : id \in {lists[p][j] : j \in DOMAIN lists[p]}
                THEN CHOOSE p \in DOMAIN lists :
                         id \in {lists[p][j] : j \in DOMAIN lists[p]}
                ELSE NoId,
                lists[id])]

NVForests ==
    {Forest(1 :> <<2>> @@ 2 :> <<3>> @@ 3 :> <<>>),
     Forest(1 :> <<2, 3>> @@ 2 :> <<>> @@ 3 :> <<>>),
     Forest(1 :> <<>> @@ 2 :> <<3>> @@ 3 :> <<>>)}

InitForest ==
    /\ ViewTreeNew
    /\ QueueNew
    /\ HostNew
    /\ LegacyNone
    /\ nv_nodes \in NVForests
    /\ next_ref = FirstRef + 3
    /\ NVTreeIdle

\* number of NVTree::patch calls in a behaviour that starts from a forest
MaxForestSteps == 2

NextForest ==
    \E patch \in NVPatches, fail \in FailAt :
        steps < MaxForestSteps /\ NVPatch(patch, fail)

SpecForest == InitForest /\ [][NextForest]_vars


(***************************************************************************)
(* Vocabulary of the applier's properties.                                 *)
(***************************************************************************)
\* the elements of a list
Range(seq) == {seq[j] : j \in DOMAIN seq}

\* the last patch() was given a patch of this kind
Applied(op) == steps > 0 /\ applied.op = op

\* no backend call of the last patch() failed
BackendSucceeded == \A i \in DOMAIN calls : calls[i].ok

\* the identities listed below id in a node map, present or not
RECURSIVE ListedFrom(_, _)
ListedFrom(ns, S) ==
    LET T == S \cup UNION {Range(ns[p].subviews) : p \in S \cap DOMAIN ns}
    IN IF T = S THEN S ELSE ListedFrom(ns, T)

ListedBelow(ns, id) ==
    IF id \in DOMAIN ns THEN ListedFrom(ns, Range(ns[id].subviews)) ELSE {}

\* the list the splice rule asks for
Spliced(list, offset, len, subviews) ==
    SubSeq(list, 1, offset) \o subviews \o SubSeq(list, offset + len + 1, Len(list))

\* the last patch was a SubviewRegion whose ancestor and new children all
\* existed, whose region lay within the stored list, and the backend succeeded
IsRegionCase ==
    /\ Applied("SubviewRegion")
    /\ applied.id \in DOMAIN nv_old
    /\ Range(applied.subs) \subseteq DOMAIN nv_old \ {applied.id}
    /\ applied.pos + applied.len <= Len(nv_old[applied.id].subviews)
    /\ BackendSucceeded

\* C13 (as claimed): in the region case the stored list becomes
\* old[0..offset) ++ new list ++ old[offset+length..).
C13_RegionSplice ==
    IsRegionCase
    => /\ result = Ok
       /\ applied.id \in DOMAIN nv_nodes
       /\ nv_nodes[applied.id].subviews
              = Spliced(nv_old[applied.id].subviews,
                        applied.pos, applied.len, applied.subs)

\* C14 (as claimed): in the region case the patch completes without an
\* out-of-bounds access and the stored list has L - length + n entries.
C14_RegionLength ==
    IsRegionCase
    => /\ result # Panic
       /\ applied.id \in DOMAIN nv_nodes
       /\ Len(nv_nodes[applied.id].subviews)
              = Len(nv_old[applied.id].subviews) - applied.len + Len(applied.subs)

\* the last patch named an identity that was not in the map: its target, a
\* listed child, or a child reached while removing
NamesMissingId ==
    /\ steps > 0
    /\ \/ applied.op \in {"SetRoot", "Replace", "SubviewRegion", "Remove"}
          /\ applied.id \notin DOMAIN nv_old
       \/ applied.op = "SubviewRegion"
          /\ ~(Range(applied.subs) \subseteq DOMAIN nv_old)
       \/ applied.op \in {"Replace", "Remove"}
          /\ ~(ListedBelow(nv_old, applied.id) \subseteq DOMAIN nv_old)

\* C15 (as claimed): a patch that names a missing identity returns
\* NoSuchView and leaves the node map exactly as it was.
C15_NoSuchViewChangesNothing ==
    NamesMissingId => result.tag = "NoSuchView" /\ nv_nodes = nv_old

\* C16 (as claimed): a SubviewRegion whose new list holds the ancestor's own
\* id returns Cycle without a backend call, and the ancestor is still in the
\* map with its child list unchanged.
C16_CycleRejected ==
    (/\ Applied("SubviewRegion")
     /\ applied.id \in DOMAIN nv_old
     /\ applied.id \in Range(applied.subs)
     /\ Range(applied.subs) \subseteq DOMAIN nv_old)
    => /\ result = Cycle(applied.id)
       /\ calls = <<>>
       /\ applied.id \in DOMAIN nv_nodes
       /\ nv_nodes[applied.id].subviews = nv_old[applied.id].subviews


\* the backend calls of the last patch() are remove_view calls, one for the
\* handle of each node of S
ReleasesExactly(S) ==
    /\ Len(calls) = Cardinality(S)
    /\ \A i \in DOMAIN calls : calls[i].fn = "remove_view" /\ calls[i].ok
    /\ {calls[i].ref : i \in DOMAIN calls} = {nv_old[d].backing_ref : d \in S}

\* among the nodes of S, the handle of a child was released before the
\* handle of the node that listed it
ChildrenFirst(S) ==
    \A d \in S : \A c \in Range(nv_old[d].subviews) \cap S :
        \A i, j \in DOMAIN calls :
            (calls[i].ref = nv_old[d].backing_ref /\ calls[j].ref = nv_old[c].backing_ref)
            => j < i

\* C17: a Remove(id) that is applied releases the handle of every descendant
\* before the handle of its parent and the handle of id last, and neither id
\* nor a descendant is in the map afterwards.
C17_RemoveLeafToRoot ==
    (Applied("Remove") /\ result = Ok)
    => LET gone == ListedBelow(nv_old, applied.id) \cup {applied.id}
       IN /\ gone \subseteq DOMAIN nv_old
          /\ ReleasesExactly(gone)
          /\ ChildrenFirst(gone)
          /\ calls[Len(calls)].ref = nv_old[applied.id].backing_ref
          /\ gone \cap DOMAIN nv_nodes = {}

\* a node with a child and a grandchild was removed
C17_Witness ==
    /\ Applied("Remove")
    /\ result = Ok
    /\ \E c \in Range(nv_old[applied.id].subviews) : nv_old[c].subviews # <<>>
    /\ Len(calls) = 3

\* C18: a Remove(id) that is applied leaves the child list of id's superview
\* as it was, so the removed id is still listed there.
C18_RemoveKeepsSuperviewList ==
    (Applied("Remove") /\ result = Ok)
    => \A p \in DOMAIN nv_old \ (ListedBelow(nv_old, applied.id) \cup {applied.id}) :
           (p = nv_old[applied.id].superview \/ applied.id \in Range(nv_old[p].subviews))
           => /\ p \in DOMAIN nv_nodes
              /\ nv_nodes[p].subviews = nv_old[p].subviews

\* a node was removed and its superview still lists it
C18_Witness ==
    /\ Applied("Remove")
    /\ result = Ok
    /\ applied.id \notin DOMAIN nv_nodes
    /\ nv_old[applied.id].superview \in DOMAIN nv_nodes
    /\ applied.id \in Range(nv_nodes[nv_old[applied.id].superview].subviews)

\* C19: Update(id, payload) on an absent id calls new_view once and inserts a
\* node with the returned handle, no superview and no children; on a present
\* id it calls update_view once on the node's handle and stores the payload,
\* leaving handle, superview and child list alone; when the backend call
\* fails the node map is as before.
C19_UpdateOrCreate ==
    Applied("Update")
    => /\ Len(calls) = 1
       /\ calls[1].view = applied.nv
       /\ result = (IF calls[1].ok THEN Ok ELSE BackendError(calls[1].err))
       /\ IF applied.id \notin DOMAIN nv_old
          THEN /\ calls[1].fn = "new_view"
               /\ nv_nodes = (IF calls[1].ok
                              THEN MapInsert(nv_old, applied.id,
                                       NVTNode(applied.nv, next_ref - 1, NoId, <<>>))
                              ELSE nv_old)
               /\ calls[1].ok
                  => \A x \in DOMAIN nv_old : nv_old[x].backing_ref # next_ref - 1
          ELSE /\ calls[1].fn = "update_view"
               /\ calls[1].ref = nv_old[applied.id].backing_ref
               /\ nv_nodes = (IF calls[1].ok
                              THEN [nv_old EXCEPT ![applied.id].view = applied.nv]
                              ELSE nv_old)

\* a node that has a superview was given another payload
C19_Witness ==
    /\ Applied("Update")
    /\ result = Ok
    /\ applied.id \in DOMAIN nv_old
    /\ nv_old[applied.id].view # applied.nv
    /\ nv_old[applied.id].superview # NoId
    /\ nv_nodes[applied.id].view = applied.nv

\* C20: a Replace(id, payload) that is applied to an existing node takes every
\* descendant of id out of the map, releasing each through remove_view with
\* children before parents, and leaves id in the map with the new payload and
\* an empty child list.
C20_ReplaceDropsSubtree ==
    (Applied("Replace") /\ applied.id \in DOMAIN nv_old /\ result = Ok)
    => LET below == ListedBelow(nv_old, applied.id)
       IN /\ below \subseteq DOMAIN nv_old \ {applied.id}
          /\ ReleasesExactly(below)
          /\ ChildrenFirst(below)
          /\ below \cap DOMAIN nv_nodes = {}
          /\ applied.id \in DOMAIN nv_nodes
          /\ nv_nodes[applied.id].view = applied.nv
          /\ nv_nodes[applied.id].subviews = <<>>

\* a node with a child and a grandchild was replaced by another payload
C20_Witness ==
    /\ Applied("Replace")
    /\ result = Ok
    /\ applied.id \in DOMAIN nv_old
    /\ nv_old[applied.id].view # applied.nv
    /\ \E c \in Range(nv_old[applied.id].subviews) : nv_old[c].subviews # <<>>
    /\ Len(calls) = 2

\* C21 (as claimed): a SetRoot patch names an identity for which an Update
\* patch stands earlier in the stream, and the node it names is renderable
\* when the pass that enqueued it ends.
C21_SetRootAfterUpdate ==
    \A k \in DOMAIN patches :
        patches[k].op = "SetRoot"
        => /\ \E j \in 1..(k - 1) :
                  patches[j].op = "Update" /\ patches[j].id = patches[k].id
           /\ (k > Len(old.patches) => nodes[patches[k].id].is_native)

(***************************************************************************)
(* The patch queue between render_root and the iterator of                 *)
(* ViewTree::patches: render_root pushes at the back, next() pops at the   *)
(* front, in any interleaving.                                             *)
(***************************************************************************)
\* VecDeque::pop_back
PopFront_FromBack(queue) ==
    [item |-> queue[Len(queue)], rest |-> SubSeq(queue, 1, Len(queue) - 1)]

\* VecDeque::pop_front
PopFront(queue) == [item |-> Head(queue), rest |-> Tail(queue)]

\* the root views of the passes whose patches are taken
QueueViews ==
    { Unit,
      Layer(0, None, <<>>),
      Layer(0, None, <<A, B>>),
      Layer(0, None, <<K1d, K2>>),
      Layer(0, None, <<K2>>),
      Comp(0, None, Fragment(<<A, B>>)) }

\* render_root, observed by what it adds to the queue
RenderRootQueued(view) ==
    /\ view \in QueueViews
    /\ RenderRootCall(view)
    /\ emitted' = emitted \o SubSeq(patches', Len(patches) + 1, Len(patches'))
    /\ UNCHANGED <<nv_vars, taken, host_vars, legacy_vars>>

\* PatchIterator::next, returning Some(patch)
PatchIteratorNext ==
    /\ patches # <<>>
    /\ LET popped == PopFront(patches)
       IN /\ patches' = popped.rest
          /\ taken' = Append(taken, popped.item)
    /\ UNCHANGED <<nodes, root, next, nstate, passes, arg, log, old, nv_vars, emitted,
                   host_vars, legacy_vars>>

NextQueue ==
    \/ \E view \in QueueViews : RenderRootQueued(view)
    \/ PatchIteratorNext

SpecQueue == Init /\ [][NextQueue]_vars

\* C22: the patches taken so far followed by the patches still queued are the
\* patches enqueued so far, in the order they were enqueued.
C22_QueueIsFifo == emitted = taken \o patches

\* patches of an earlier pass are still queued behind taken ones and ahead
\* of the patches of a later pass
C22_Witness ==
    /\ passes = 2
    /\ taken # <<>>
    /\ old.patches # <<>>
    /\ Len(patches) > Len(old.patches)
    /\ SubSeq(patches, 1, Len(old.patches)) = old.patches

\* whether id names a renderable node of a node map
IsRenderable(ns, id) == id \in DOMAIN ns /\ ns[id].is_native

\* C23: every Update and Replace patch of a pass names a node that is
\* renderable, every Remove patch a node that was renderable before the pass,
\* and every SubviewRegion patch targets a renderable node and lists only
\* renderable nodes.
C23_PatchesNameRenderables ==
    \A k \in DOMAIN NewPatches :
        LET p == NewPatches[k]
        IN /\ p.op \in {"Update", "Replace"} => IsRenderable(nodes, p.id)
           /\ p.op = "Remove" => IsRenderable(old.nodes, p.id)
           /\ p.op = "SubviewRegion"
              => /\ IsRenderable(nodes, p.id)
                 /\ \A j \in DOMAIN p.subs : IsRenderable(nodes, p.subs[j])

\* a pass over a tree that holds composite nodes enqueued an Update, a Remove
\* and a SubviewRegion that lists a renderable node found below a composite
C23_Witness ==
    /\ \E k \in DOMAIN NewPatches : NewPatches[k].op = "Update"
    /\ \E k \in DOMAIN NewPatches : NewPatches[k].op = "Remove"
    /\ \E k \in DOMAIN NewPatches :
           /\ NewPatches[k].op = "SubviewRegion"
           /\ \E j \in DOMAIN NewPatches[k].subs :
                  nodes[NewPatches[k].subs[j]].superview # NewPatches[k].id
    /\ \E id \in DOMAIN nodes : ~nodes[id].is_native

(***************************************************************************)
(* Host (src/host.rs): the native side sends events into the channel from  *)
(* its own thread (raw_event_handler) while Host::poll runs its loop, one  *)
(* try_recv at a time.                                                     *)
(***************************************************************************)
\* number of events the native side sends in a behaviour
MaxEvents == 3

HostEvents == {"pointer", "key"}

\* raw_event_handler: sender.send(event)
RawEventHandler(event) ==
    /\ host.sender
    /\ host.pc \notin {"panicked", "dropped"}
    /\ host.sent < MaxEvents
    /\ host' = [host EXCEPT !.channel = Append(@, event), !.sent = @ + 1]
    /\ UNCHANGED <<vt_vars, nv_vars, queue_vars, legacy_vars>>

\* Host::poll is called
PollBegin ==
    /\ host.pc \in {"idle", "returned"}
    /\ host' = [host EXCEPT !.pc = "polling",
                            !.backlog = host.channel,
                            !.received = <<>>]
    /\ UNCHANGED <<vt_vars, nv_vars, queue_vars, legacy_vars>>

\* Host::recv_raw_event: unimplemented!("receive raw event")
RecvRawEvent(h, event) ==
    [h EXCEPT !.received = Append(@, event), !.pc = "panicked"]

\* one turn of the loop of Host::poll
PollTryRecv ==
    /\ host.pc = "polling"
    /\ host' = IF host.channel # <<>>
               THEN RecvRawEvent([host EXCEPT !.channel = Tail(@)], Head(host.channel))
               ELSE IF host.sender
               THEN [host EXCEPT !.pc = "returned"]
               ELSE [host EXCEPT !.pc = "panicked"]
    /\ UNCHANGED <<vt_vars, nv_vars, queue_vars, legacy_vars>>

\* Drop for Host: the Sender kept in the native user data is dropped
HostDrop ==
    /\ host.pc \in {"idle", "returned"}
    /\ host' = [host EXCEPT !.sender = FALSE, !.pc = "dropped"]
    /\ UNCHANGED <<vt_vars, nv_vars, queue_vars, legacy_vars>>

NextHost ==
    \/ \E event \in HostEvents : RawEventHandler(event)
    \/ PollBegin
    \/ PollTryRecv
    \/ HostDrop

SpecHost == Init /\ [][NextHost]_vars

\* whether a sequence begins with another
IsPrefix(p, seq) == Len(p) <= Len(seq) /\ SubSeq(seq, 1, Len(p)) = p

\* C24 (as claimed): a poll() that has returned has received, in the order
\* they were sent, every event that was in the channel when it began, and a
\* poll() panics only when the sending side is disconnected.
C24_PollDrainsBacklog ==
    /\ host.pc = "returned" => IsPrefix(host.backlog, host.received)
    /\ host.pc = "panicked" => ~host.sender

(***************************************************************************)
(* The legacy ViewTree (src/tree.rs): maps keyed by ViewId that diff_render *)
(* and diff_render_subview keep for the views, their states, parents,      *)
(* subview lists, native ancestors and event handlers.  The operators work *)
(* on the record t of these maps; a panic leaves t.pc = "panicked" and     *)
(* stops every later step of the call.  State::will_update, will_appear    *)
(* and will_disappear are the default implementations, which change        *)
(* nothing.                                                                *)
(***************************************************************************)
\* number of top-level renders of the legacy tree in a behaviour
MaxRenders == 3

\* enum EventTypeId, with its discriminants
EventTypeIds == {"Hover", "Pointer", "Key", "Scroll"}
EventTypeOrd(ty) ==
    CASE ty = "Hover" -> 0 [] ty = "Pointer" -> 1 [] ty = "Key" -> 2 [] ty = "Scroll" -> 3
EventTypeIdMIN == "Hover"
EventTypeIdMAX == "Scroll"

\* Layer { bounds, key, subviews, <the four optional actions> }; actions is
\* the set of event types whose action is Some
LegacyLayer(bounds, actions, key, subviews) ==
    Layer([bounds |-> bounds, actions |-> actions], key, subviews)

\* the views of test_tree_diff_render
RootView(n) == V("RootView", n, None, <<>>)
Subview1 == V("Subview1", 0, None, <<>>)

\* View::body
LegacyBody(view) ==
    IF view.kind = "RootView"
    THEN CASE view.prop = 0 -> Subview1
           [] view.prop = 1 -> Unit
           [] view.prop = 2 -> LegacyLayer(0, {}, None, <<Subview1, Unit>>)
    ELSE IF view.kind = "Subview1" THEN Unit
    ELSE Body(view)

\* View::eq: impl_view compares with PartialEq after the downcast; Layer's
\* PartialEq compares the visual properties and the subviews, not the key
\* and not the event handlers
RECURSIVE LegacyViewEq(_, _)
LegacyViewEq(a, b) ==
    IF a.kind # b.kind THEN FALSE
    ELSE IF a.kind = "Fragment"
         THEN /\ Len(a.sub) = Len(b.sub)
              /\ \A i \in 1..Len(a.sub) : LegacyViewEq(a.sub[i], b.sub[i])
    ELSE IF a.kind = "Layer"
         THEN a.prop.bounds = b.prop.bounds /\ LegacyViewEq(a.sub[1], b.sub[1])
    ELSE a.prop = b.prop /\ a.sub = b.sub

\* Patch::update / Patch::subview / Patch::remove
LegacyPatch(ty, view, data) == [ty |-> ty, view |-> view, data |-> data]

LegacyPanic(t) == [t EXCEPT !.pc = "panicked"]

\* EventHandlers::remove_view: the keys in the half-open range
\* (view, MIN)..(view, MAX) are removed
EventHandlersRemoveView(map, view) ==
    map \ { <<view, ty>> : ty \in { e \in EventTypeIds :
                /\ EventTypeOrd(EventTypeIdMIN) <= EventTypeOrd(e)
                /\ EventTypeOrd(e) < EventTypeOrd(EventTypeIdMAX) } }

\* LayerPatch::new: register_action! adds the handler of every action that
\* is Some and removes the handler of every action that is None
LayerPatchNew(map, layer, id) ==
    (map \ { <<id, ty>> : ty \in EventTypeIds \ layer.prop.actions })
        \cup { <<id, ty>> : ty \in layer.prop.actions }

\* ViewTree::add_view
LegacyAddView(t, id, view) ==
    [t EXCEPT !.states = MapInsert(@, id, t.nstate),
              !.nstate = @ + 1,
              !.subviews = MapInsert(@, id, <<>>),
              !.views = MapInsert(@, id, view)]

\* Vec::remove(position of the first occurrence)
RemoveFirst(list, id) ==
    LET pos == CHOOSE i \in 1..Len(list) :
                   list[i] = id /\ \A j \in 1..(i - 1) : list[j] # id
    IN SubSeq(list, 1, pos - 1) \o SubSeq(list, pos + 1, Len(list))

RECURSIVE LegacyRemoveView(_, _, _)
RECURSIVE LegacyRemoveEach(_, _, _, _)

\* ViewTree::remove_view
LegacyRemoveView(t, id, replacing_view) ==
    IF t.pc = "panicked" THEN t
    ELSE IF id \notin DOMAIN t.states \/ id \notin DOMAIN t.views THEN LegacyPanic(t)
    ELSE
      LET view == t.views[id]
          t1 == [t EXCEPT !.views = MapRemove(@, id),
                          !.states = MapRemove(@, id),
                          !.event_handlers = EventHandlersRemoveView(@, id)]
          listed == /\ id \in DOMAIN t1.parents
                    /\ t1.parents[id] \in DOMAIN t1.subviews
          t2 == IF replacing_view THEN t1
                ELSE IF listed /\ \A i \in DOMAIN t1.subviews[t1.parents[id]] :
                                      t1.subviews[t1.parents[id]][i] # id
                THEN LegacyPanic(t1)
                ELSE [t1 EXCEPT
                        !.subviews = IF listed
                                     THEN [@ EXCEPT ![t1.parents[id]] = RemoveFirst(@, id)]
                                     ELSE @,
                        !.parents = MapRemove(@, id),
                        !.native_ancestors = MapRemove(@, id),
                        !.patches = IF NativeType(view)
                                    THEN Append(@, LegacyPatch("Remove", id, NoId))
                                    ELSE @]
      IN IF t2.pc = "panicked" THEN t2
         ELSE IF id \notin DOMAIN t2.subviews THEN LegacyPanic(t2)
         ELSE \* also remove all subviews
              LegacyRemoveEach([t2 EXCEPT !.subviews = MapRemove(@, id)],
                               t2.subviews[id], 1, FALSE)

\* remove_view for each id of a list, in order
LegacyRemoveEach(t, ids, i, replacing_view) ==
    IF i > Len(ids) THEN t
    ELSE LegacyRemoveEach(LegacyRemoveView(t, ids[i], replacing_view), ids, i + 1,
                          replacing_view)

\* current_views: key -> id over the current subviews; HashMap::insert
\* overwrites an entry with the same key
RECURSIVE LegacyCurrentViews(_, _, _, _, _)
LegacyCurrentViews(views, ids, i, auto_key_counter, map) ==
    IF i > Len(ids) THEN map
    ELSE LET view == views[ids[i]]
         IN LegacyCurrentViews(views, ids, i + 1,
                NextAutoKey(view, auto_key_counter),
                MapInsert(MapRemove(map, KeyOf(view, auto_key_counter)),
                          KeyOf(view, auto_key_counter), ids[i]))

\* to_remove of the keyed one-subview branch: every subview whose key is
\* not the new key, and every one after the first that matches
RECURSIVE ToRemove(_, _, _, _, _)
ToRemove(views, ids, i, key, found_one_to_keep) ==
    IF i > Len(ids) THEN <<>>
    ELSE IF views[ids[i]].key # <<key>> \/ found_one_to_keep
         THEN <<ids[i]>> \o ToRemove(views, ids, i + 1, key, found_one_to_keep)
         ELSE ToRemove(views, ids, i + 1, key, TRUE)

RECURSIVE LegacyDiffRender(_, _, _)
RECURSIVE LegacyDiffRenderSubview(_, _, _)
RECURSIVE LegacyFragmentLoop(_, _, _, _, _)

\* the loop over the views of a Fragment (tree.rs 185-208); ls is the loop's
\* state: t, current_views, auto_key_counter, new_subviews
LegacyFragmentLoop(ls, id, native_ancestor, views, i) ==
    IF i > Len(views) \/ ls.t.pc = "panicked" THEN {ls}
    ELSE
      LET view == views[i]
          key == KeyOf(view, ls.auto_key_counter)
          counter == NextAutoKey(view, ls.auto_key_counter)
          found == key \in DOMAIN ls.current
          s_id == IF found THEN ls.current[key] ELSE ls.t.next
          t1 == IF found THEN ls.t
                ELSE \* no existing view with the same key, needs to be created
                  [ls.t EXCEPT
                     !.next = @ + 1,
                     !.parents = MapInsert(@, s_id, id),
                     !.native_ancestors =
                         IF native_ancestor # NoId
                         THEN MapInsert(@, s_id, native_ancestor) ELSE @,
                     !.patches =
                         IF native_ancestor # NoId
                         THEN Append(@, LegacyPatch("Subview", native_ancestor, s_id))
                         ELSE @]
      IN UNION {
           LegacyFragmentLoop([t |-> o,
                               current |-> MapRemove(ls.current, key),
                               auto_key_counter |-> counter,
                               new_subviews |-> Append(ls.new_subviews, s_id)],
                              id, native_ancestor, views, i + 1)
           : o \in LegacyDiffRender(t1, s_id, view) }

\* ViewTree::diff_render_subview
LegacyDiffRenderSubview(t, id, subview) ==
    IF t.pc = "panicked" THEN {t}
    ELSE IF id \notin DOMAIN t.views THEN {LegacyPanic(t)}
    ELSE
      LET parent_is_native == NativeType(t.views[id])
          native_ancestor == IF parent_is_native THEN id ELSE NoId
      IN IF subview.kind = "Fragment"
         THEN \* expand multiple subviews
           IF \/ id \notin DOMAIN t.subviews
              \/ \E i \in DOMAIN t.subviews[id] : t.subviews[id][i] \notin DOMAIN t.views
           THEN {LegacyPanic(t)}
           ELSE
             LET ls0 == [t |-> t,
                         current |-> LegacyCurrentViews(t.views, t.subviews[id], 1, 0, EmptyMap),
                         auto_key_counter |-> 0,
                         new_subviews |-> <<>>]
                 Finish(ls, order) ==
                     LET \* unused subviews need to be removed
                         t1 == LegacyRemoveEach(ls.t, order, 1, FALSE)
                     IN IF t1.pc = "panicked" THEN t1
                        ELSE [t1 EXCEPT !.subviews = MapInsert(@, id, ls.new_subviews)]
             IN UNION { { Finish(ls, order) : order \in Perms(MapValues(ls.current)) }
                        : ls \in LegacyFragmentLoop(ls0, id, native_ancestor, subview.sub, 1) }
         ELSE \* one subview
           IF id \notin DOMAIN t.subviews THEN {LegacyPanic(t)}
           ELSE
             LET subviews == t.subviews[id]
                 t1 == IF Len(subviews) > 1
                       THEN \* too many subviews
                         IF subview.key # <<>>
                         THEN \* keep the subview that matches the key
                              IF \E i \in DOMAIN subviews : subviews[i] \notin DOMAIN t.views
                              THEN LegacyPanic(t)
                              ELSE LegacyRemoveEach(t,
                                       ToRemove(t.views, subviews, 1, subview.key[1], FALSE),
                                       1, FALSE)
                         ELSE \* subviews.drain(1..), then remove_view of each drained id
                              LegacyRemoveEach(
                                  [t EXCEPT !.subviews[id] = <<subviews[1]>>],
                                  Tail(subviews), 1, FALSE)
                       ELSE t
             IN IF t1.pc = "panicked" THEN {t1}
                ELSE \* use id of the last remaining subview or create a new one
                  LET rest == t1.subviews[id]
                      s_id == t1.next
                      t2 == IF rest # <<>> THEN t1
                            ELSE [t1 EXCEPT
                                    !.next = @ + 1,
                                    !.subviews[id] = Append(@, s_id),
                                    !.parents = MapInsert(@, s_id, id),
                                    !.native_ancestors =
                                        IF native_ancestor # NoId
                                        THEN MapInsert(@, s_id, native_ancestor) ELSE @,
                                    !.patches =
                                        IF native_ancestor # NoId
                                        THEN Append(@, LegacyPatch("Subview", native_ancestor, s_id))
                                        ELSE @]
                      subview_id == IF rest # <<>> THEN rest[1] ELSE s_id
                  IN LegacyDiffRender(t2, subview_id, subview)

\* ViewTree::diff_render
LegacyDiffRender(t, id, view) ==
    IF t.pc = "panicked" THEN {t}
    ELSE
      LET t1 ==
            IF id \in DOMAIN t.views
            THEN LET current == t.views[id]
                 IN IF current.kind = view.kind
                    THEN \* same kind of view; only need to diff props
                         IF ~LegacyViewEq(current, view)
                         THEN IF id \notin DOMAIN t.states THEN LegacyPanic(t)
                              ELSE [t EXCEPT !.views = MapInsert(@, id, view)]
                         ELSE t
                    ELSE \* different view; needs replacing
                         LET r == LegacyRemoveView(t, id, TRUE)
                         IN IF r.pc = "panicked" THEN r ELSE LegacyAddView(r, id, view)
            ELSE LegacyAddView(t, id, view)
      IN IF t1.pc = "panicked" THEN {t1}
         ELSE IF id \notin DOMAIN t1.states THEN {LegacyPanic(t1)}
         ELSE
           LET stored == t1.views[id]
               t2 == IF stored.kind = "Layer"
                     THEN [t1 EXCEPT
                             !.event_handlers = LayerPatchNew(@, stored, id),
                             !.patches = Append(@, LegacyPatch("Update", id, stored.prop))]
                     ELSE t1
           IN IF stored.kind = "Unit" THEN {t1}
              ELSE LegacyDiffRenderSubview(t2, id, LegacyBody(stored))

(***************************************************************************)
(* The drivers of the legacy tree: ViewTree::new and ViewTree::update, and *)
(* test_tree_diff_render, which mints an identity of its own and calls     *)
(* diff_render with it.                                                    *)
(***************************************************************************)
LK1 == LegacyLayer(0, {"Pointer", "Scroll"}, Some(1), <<>>)
LK2 == LegacyLayer(0, {}, Some(2), <<Subview1>>)
LK2e == LegacyLayer(0, {"Key"}, Some(2), <<>>)

\* the views given to ViewTree::new and to diff_render
LegacyRoots ==
    { RootView(0), RootView(1), RootView(2),
      LegacyLayer(0, {}, None, <<LK1, LK2>>),
      LegacyLayer(0, {"Hover"}, None, <<LK2e>>),
      Comp(0, None, Fragment(<<Subview1, Unit>>)),
      Comp(1, None, Subview1),
      Comp(2, None, Fragment(<<LK1, LK2>>)),
      Comp(3, None, LK2e) }

\* the maps of the tree, kept to compare a render with the tree before it
LegacySnapshot(t) ==
    [views |-> t.views, states |-> t.states, parents |-> t.parents,
     subviews |-> t.subviews, event_handlers |-> t.event_handlers]

\* what a top-level diff_render(id, view) leaves behind
LegacyRendered(t, id, view) ==
    { [o EXCEPT !.pc = IF o.pc = "panicked" THEN "panicked" ELSE "rendered",
                !.rendered = id,
                !.renders = @ + 1,
                !.before = LegacySnapshot(t)]
      : o \in LegacyDiffRender(t, id, view) }

\* ViewTree::new(root)
LegacyViewTreeNew(view) ==
    /\ legacy.pc = "none"
    /\ legacy' = [legacy EXCEPT !.pc = "new",
                                !.root = legacy.next,
                                !.next = @ + 1,
                                !.pending_root_render = TRUE,
                                !.views = MapInsert(EmptyMap, legacy.next, view)]
    /\ UNCHANGED <<vt_vars, nv_vars, queue_vars, host_vars>>

\* ViewTree::update: the pending root render, with a patch list of its own
\* that is dropped when update returns
LegacyUpdate ==
    /\ legacy.pc \in {"new", "rendered"}
    /\ legacy.renders < MaxRenders
    /\ IF legacy.pending_root_render
       THEN IF legacy.root \notin DOMAIN legacy.views
            THEN legacy' = [legacy EXCEPT !.pending_root_render = FALSE,
                                          !.pc = "panicked"]
            ELSE LET t == [legacy EXCEPT !.pending_root_render = FALSE,
                                         !.views = MapRemove(@, legacy.root),
                                         !.patches = <<>>]
                 IN \E o \in LegacyRendered(t, legacy.root, legacy.views[legacy.root]) :
                        legacy' = [o EXCEPT !.patches = legacy.patches,
                                            !.before = LegacySnapshot(legacy)]
       ELSE legacy' = legacy
    /\ UNCHANGED <<vt_vars, nv_vars, queue_vars, host_vars>>

\* test_tree_diff_render, lines 362 and 430: root = ViewId::new() and
\* tree.views.remove(&root)
LegacyTestBegin ==
    /\ legacy.pc = "new"
    /\ legacy.test_root = NoId
    /\ legacy' = [legacy EXCEPT !.test_root = legacy.next,
                                !.next = @ + 1,
                                !.views = MapRemove(@, legacy.next)]
    /\ UNCHANGED <<vt_vars, nv_vars, queue_vars, host_vars>>

\* test_tree_diff_render, lines 431, 456 and 481:
\* tree.diff_render(root, root_view, &mut patches)
LegacyTestDiffRender(view) ==
    /\ legacy.pc \in {"new", "rendered"}
    /\ legacy.test_root # NoId
    /\ legacy.renders < MaxRenders
    /\ legacy' \in LegacyRendered(legacy, legacy.test_root, view)
    /\ UNCHANGED <<vt_vars, nv_vars, queue_vars, host_vars>>

NextLegacy ==
    \/ \E view \in LegacyRoots : LegacyViewTreeNew(view)
    \/ LegacyUpdate
    \/ LegacyTestBegin
    \/ \E view \in LegacyRoots : LegacyTestDiffRender(view)

SpecLegacy == Init /\ [][NextLegacy]_vars

(***************************************************************************)
(* Properties of the legacy tree.                                          *)
(***************************************************************************)
\* the identities reachable from the identities in todo through the
\* subviews lists
RECURSIVE LegacyReach(_, _, _)
LegacyReach(subviews, todo, seen) ==
    IF todo = {} THEN seen
    ELSE LET id == CHOOSE x \in todo : TRUE
             kids == IF id \in DOMAIN subviews
                     THEN {subviews[id][i] : i \in DOMAIN subviews[id]} ELSE {}
         IN LegacyReach(subviews, (todo \cup kids) \ (seen \cup {id}), seen \cup {id})

\* C25: after a diff_render of the legacy ViewTree has returned, the
\* rendered root has no parent entry, every other stored view has a parent
\* entry naming the view whose subviews list contains it, and the views,
\* states and subviews maps hold exactly the identities reachable from the
\* rendered root.
C25_LegacyTreeConsistent ==
    legacy.pc = "rendered" =>
      LET reach == LegacyReach(legacy.subviews, {legacy.rendered}, {})
      IN /\ legacy.rendered \notin DOMAIN legacy.parents
         /\ \A id \in DOMAIN legacy.views \ {legacy.rendered} :
              /\ id \in DOMAIN legacy.parents
              /\ legacy.parents[id] \in DOMAIN legacy.subviews
              /\ \E i \in DOMAIN legacy.subviews[legacy.parents[id]] :
                     legacy.subviews[legacy.parents[id]][i] = id
         /\ DOMAIN legacy.views = reach
         /\ DOMAIN legacy.states = reach
         /\ DOMAIN legacy.subviews = reach

(***************************************************************************)
(* The applier with a backend any one of whose calls may fail with any     *)
(* error value: one patch given to a new NVTree or to one that holds       *)
(* children.                                                               *)
(***************************************************************************)
\* number of NVTree::patch calls in a behaviour
MaxFailSteps == 1

\* which backend call of a patch fails (0: none)
FailAny == {0, 1, 2, 3}

InitFail ==
    /\ ViewTreeNew
    /\ QueueNew
    /\ HostNew
    /\ LegacyNone
    /\ \/ nv_nodes = EmptyMap /\ next_ref = FirstRef
       \/ nv_nodes \in NVForests /\ next_ref = FirstRef + 3
    /\ NVTreeIdle

NVPatchFailing(patch, fail, err) ==
    /\ steps < MaxFailSteps
    /\ NVPatchWith(patch, fail, err)
    /\ UNCHANGED <<vt_vars, ext_vars>>

NextFail ==
    \E patch \in NVPatches, fail \in FailAny, err \in BackendErrors :
        NVPatchFailing(patch, fail, err)

SpecFail == InitFail /\ [][NextFail]_vars

\* C26: NVTree::patch returns BackendError exactly when one of its backend
\* calls failed; the failed call is the only failed one and the last call
\* the patch made (no retry, no further call), and the error returned
\* carries the value that call returned.
C26_BackendErrorPropagates ==
    steps > 0
    => /\ (result.tag = "BackendError") <=> (\E i \in DOMAIN calls : ~calls[i].ok)
       /\ \A i \in DOMAIN calls :
            ~calls[i].ok => /\ i = Len(calls)
                            /\ calls[i].err \in BackendErrors
                            /\ result = BackendError(calls[i].err)

\* a Remove whose second backend call failed with E2 while a node of the
\* subtree was still to be released
C26_Witness ==
    /\ Applied("Remove")
    /\ Len(calls) = 2
    /\ ~calls[2].ok
    /\ result = BackendError("E2")
    /\ Cardinality(DOMAIN nv_old) = 3
    /\ applied.id \in DOMAIN nv_old
    /\ nv_old[applied.id].subviews # <<>>

(***************************************************************************)
(* The reconciler and the applier together, as the crate documentation     *)
(* describes them: the patches of ViewTree::patches are taken from the     *)
(* front of the queue and given to NVTree::patch, with a backend that      *)
(* always succeeds.  A panic of the applier ends the process.              *)
(***************************************************************************)
\* the views given to render_root in front of an applier
PipeViews ==
    { Unit, A, Text(0, None), B,
      Layer(0, None, <<A, B>>),
      Layer(0, None, <<K1d, K2>>),
      Layer(0, None, <<K2>>),
      Comp(0, None, Fragment(<<A, B>>)) }

\* render_root(view), the applier left alone
RenderRootPiped(view) ==
    /\ view \in PipeViews
    /\ result # Panic
    /\ RenderRootCall(view)
    /\ UNCHANGED <<nv_vars, ext_vars>>

\* for patch in tree.patches() { nv_tree.patch(patch) }: one iteration
ApplyNextPatch ==
    /\ patches # <<>>
    /\ LET popped == PopFront(patches)
       IN /\ patches' = popped.rest
          /\ NVPatchCall(popped.item, 0)
    /\ UNCHANGED <<nodes, root, next, nstate, passes, arg, log, old, ext_vars>>

NextPipe ==
    \/ \E view \in PipeViews : RenderRootPiped(view)
    \/ ApplyNextPatch

SpecPipe == Init /\ [][NextPipe]_vars

\* the nearest renderable descendants below the nodes ids of the ViewTree,
\* in order: a renderable node itself, otherwise those of its subviews
RECURSIVE NearestRenderables(_, _)
NearestRenderables(ns, ids) ==
    IF ids = <<>> THEN <<>>
    ELSE (IF ns[Head(ids)].is_native THEN <<Head(ids)>>
          ELSE NearestRenderables(ns, ns[Head(ids)].subviews))
         \o NearestRenderables(ns, Tail(ids))

\* the NVTree holds exactly the renderable identities of the ViewTree, each
\* with the list of its nearest renderable descendants
Mirrors ==
    /\ DOMAIN nv_nodes = {id \in DOMAIN nodes : nodes[id].is_native}
    /\ \A id \in DOMAIN nv_nodes :
           nv_nodes[id].subviews = NearestRenderables(nodes, nodes[id].subviews)

\* C27: once the applier has been given every patch of the passes rendered
\* so far, in order, as far as it can take them (the queue is empty, or the
\* applier has panicked), the NVTree holds exactly the renderable
\* identities of the ViewTree and each one's child list is the ordered list
\* of its nearest renderable descendants.
C27_ApplierMirrorsViewTree ==
    (passes > 0 /\ (patches = <<>> \/ result = Panic)) => Mirrors

\* C28: every patch of the render passes, given to the applier in emission
\* order with a backend that always succeeds, returns Ok: none returns
\* NoSuchView or Cycle and none panics in subview_region.
C28_EveryPatchApplies ==
    steps > 0 => result = Ok

\* the nearest renderable node on the chain of superview links that starts
\* at id (NoId: none)
RECURSIVE NearestRenderableFrom(_, _)
NearestRenderableFrom(ns, id) ==
    IF id = NoId \/ id \notin DOMAIN ns THEN NoId
    ELSE IF ns[id].is_native THEN id
    ELSE NearestRenderableFrom(ns, ns[id].superview)

\* C29: after every render_root, each node's nv_ancestor is the nearest
\* renderable proper ancestor found by following the superview links, and
\* None when there is none.
C29_NvAncestorIsNearest ==
    \A id \in DOMAIN nodes :
        nodes[id].nv_ancestor = NearestRenderableFrom(nodes, nodes[id].superview)

\* the walk over the nearest renderable descendants below the nodes ids, up
\* to the node s: found tells whether s was met, n counts the renderable
\* nodes the walk passed before it (all of them when s was not met)
RECURSIVE WalkTo(_, _, _)
WalkTo(ns, ids, s) ==
    IF ids = <<>> THEN [found |-> FALSE, n |-> 0]
    ELSE IF Head(ids) = s THEN [found |-> TRUE, n |-> 0]
    ELSE IF ns[Head(ids)].is_native
         THEN LET r == WalkTo(ns, Tail(ids), s)
              IN [found |-> r.found, n |-> r.n + 1]
    ELSE LET inner == WalkTo(ns, ns[Head(ids)].subviews, s)
             r == WalkTo(ns, Tail(ids), s)
         IN IF inner.found THEN inner
            ELSE [found |-> r.found, n |-> r.n + inner.n]

\* node s is a node whose child group the pass may have reconciled into the
\* patch p, and p carries the range that group occupied in the child list
\* of p's target when the previous pass ended
RegionOfGroup(p, s) ==
    /\ s \in DOMAIN nodes
    /\ p.id = (IF nodes[s].is_native THEN s ELSE nodes[s].nv_ancestor)
    /\ IF s \notin DOMAIN old.nodes \/ p.id \notin DOMAIN old.nodes
          \/ nodes[s].state # old.nodes[s].state
       THEN \* the group's first pass
            p.len = 0
       ELSE LET group == NearestRenderables(old.nodes, old.nodes[s].subviews)
                w == WalkTo(old.nodes, old.nodes[p.id].subviews, s)
            IN IF s = p.id
               THEN p.pos = 0 /\ p.len = Len(group)
               ELSE w.found /\ p.pos = w.n /\ p.len = Len(group)

\* C30: the offset and length of each SubviewRegion patch of a pass are the
\* index range that the renderable descendants of some reconciled child
\* group occupied in the target's child list at the end of the previous
\* pass, with length 0 on the group's first pass.
C30_RegionIsPreviousRange ==
    \A k \in DOMAIN NewPatches :
        NewPatches[k].op = "SubviewRegion"
        => \E s \in DOMAIN nodes : RegionOfGroup(NewPatches[k], s)

\* the sum of the subregion lengths of the nodes ids
RECURSIVE SumLen(_, _)
SumLen(ns, ids) ==
    IF ids = <<>> THEN 0 ELSE ns[Head(ids)].len + SumLen(ns, Tail(ids))

\* C31: after every render_root, each node's subregion length is 1 if the
\* node is renderable and otherwise the sum of its children's subregion
\* lengths (0 for a composite with no children).
C31_SubregionLength ==
    \A id \in DOMAIN nodes :
        nodes[id].len = (IF nodes[id].is_native THEN 1
                         ELSE SumLen(nodes, nodes[id].subviews))

\* a second pass after which a composite node with two children
\* contributes two renderable descendants and a renderable node has
\* children of its own
C31_Witness ==
    /\ passes = 2
    /\ \E id \in DOMAIN nodes :
          ~nodes[id].is_native /\ Len(nodes[id].subviews) = 2 /\ nodes[id].len = 2
    /\ \E id \in DOMAIN nodes : nodes[id].is_native /\ Len(nodes[id].subviews) >= 2

\* the subregion start the k-th child of node id should have
ExpectedStart(ns, id, k) ==
    (IF ns[id].is_native THEN 0 ELSE ns[id].pos)
        + SumLen(ns, SubSeq(ns[id].subviews, 1, k - 1))

\* C32: after every render_root, the children of each node occupy
\* contiguous, non-overlapping subregions in list order: the first starts
\* at 0 under a renderable node and at the node's own subregion start
\* otherwise, and each later child starts where the previous one ends.
C32_ChildrenContiguous ==
    \A id \in DOMAIN nodes :
        \A k \in DOMAIN nodes[id].subviews :
            nodes[nodes[id].subviews[k]].pos = ExpectedStart(nodes, id, k)

\* a second pass after which a child that contributes two renderable
\* descendants is followed by a sibling that starts at 2
C32_Witness ==
    /\ passes = 2
    /\ \E id \in DOMAIN nodes :
          /\ Len(nodes[id].subviews) >= 2
          /\ nodes[nodes[id].subviews[1]].len = 2
          /\ nodes[nodes[id].subviews[2]].pos = 2

\* the key of the i-th view of a list: its explicit key, or the number of
\* views without a key before it
KeyAt(views, i) ==
    IF views[i].key # <<>> THEN <<"Key", views[i].key[1]>>
    ELSE <<"AutoKey", Cardinality({j \in 1..(i - 1) : views[j].key = <<>>})>>

\* the nodes that were in the tree before the pass and were diffed in place
Survivors ==
    {s \in DOMAIN nodes \cap DOMAIN old.nodes : nodes[s].state = old.nodes[s].state}

\* the views the old subviews of s held, and the descriptors its body
\* renders now
OldViewsOf(s) ==
    [i \in DOMAIN old.nodes[s].subviews |-> old.nodes[old.nodes[s].subviews[i]].view]
NewViewsOf(s) == SubviewList(Body(nodes[s].view))

\* C33: for every node diffed in place, the new subviews list has one
\* identity per new descriptor and no identity twice; a descriptor has the
\* identity of the old subview with the same key (an explicit key and an
\* auto-key are never the same key), and a fresh identity if there is none;
\* every old subview without a descriptor of its key is gone from the map
\* with its whole subtree.
C33_MatchingIsBijection ==
    \A s \in Survivors :
        LET O == old.nodes[s].subviews
            N == nodes[s].subviews
            ov == OldViewsOf(s)
            nv == NewViewsOf(s)
        IN /\ Len(N) = Len(nv)
           /\ \A j, k \in DOMAIN N : N[j] = N[k] => j = k
           /\ \A j \in DOMAIN N :
                IF \E i \in DOMAIN O : KeyAt(ov, i) = KeyAt(nv, j)
                THEN \E i \in DOMAIN O : KeyAt(ov, i) = KeyAt(nv, j) /\ N[j] = O[i]
                ELSE N[j] >= old.next
           /\ \A i \in DOMAIN O :
                (\A j \in DOMAIN nv : KeyAt(nv, j) # KeyAt(ov, i))
                => /\ O[i] \notin DOMAIN nodes
                   /\ Descendants(old.nodes, O[i]) \cap DOMAIN nodes = {}

\* a pass in which a descriptor with the explicit key n meets an old
\* subview with the auto-key n: the descriptor gets a fresh identity and the
\* old subview is removed; and a pass in which one subview is matched and
\* another, with descendants, is removed
C33_Witness ==
    /\ passes = 2
    /\ \E s \in Survivors :
         LET O == old.nodes[s].subviews
             N == nodes[s].subviews
             ov == OldViewsOf(s)
             nv == NewViewsOf(s)
         IN \/ \E i \in DOMAIN O, j \in DOMAIN N :
                 /\ KeyAt(ov, i)[1] = "AutoKey"
                 /\ KeyAt(nv, j) = <<"Key", KeyAt(ov, i)[2]>>
                 /\ N[j] >= old.next
                 /\ O[i] \notin DOMAIN nodes


\* the identities reachable from the root through subviews lists
ReachableFromRoot ==
    IF root = NoId THEN {}
    ELSE {root} \cup (IF root \in DOMAIN nodes THEN Descendants(nodes, root) ELSE {})

\* the places (owner, index) at which id stands in a subviews list
PlacesOf(id) ==
    {<<p, k>> \in (DOMAIN nodes) \X (1..8) :
        k \in DOMAIN nodes[p].subviews /\ nodes[p].subviews[k] = id}

\* C34: after every render_root the node map holds exactly the identities
\* reachable from the root through subviews lists, the root has no superview
\* and stands in no list, and every other identity stands at exactly one
\* place of exactly one list, that of the node its superview field names.
C34_NodeMapIsTheTree ==
    passes > 0 =>
        /\ DOMAIN nodes = ReachableFromRoot
        /\ \A id \in DOMAIN nodes :
              IF id = root
              THEN nodes[id].superview = NoId /\ PlacesOf(id) = {}
              ELSE /\ Cardinality(PlacesOf(id)) = 1
                   /\ \A pl \in PlacesOf(id) : nodes[id].superview = pl[1]

\* two passes, the second of which removed a subtree, added a view and
\* replaced a node that has a superview, left a tree of three levels
C34_Witness ==
    /\ passes = 2
    /\ DOMAIN old.nodes \ DOMAIN nodes # {}
    /\ DOMAIN nodes \ DOMAIN old.nodes # {}
    /\ \E id \in DOMAIN nodes \cap DOMAIN old.nodes :
          nodes[id].state # old.nodes[id].state /\ nodes[id].superview # NoId
    /\ \E id \in DOMAIN nodes :
          nodes[id].superview # NoId /\ nodes[nodes[id].superview].superview # NoId


C37_ReplaceReachesBackend ==
    (Applied("Replace") /\ applied.id \in DOMAIN nv_old /\ result = Ok)
    => \E i \in DOMAIN calls :
          /\ calls[i].ok
          /\ calls[i].view = applied.nv
          /\ \/ /\ calls[i].fn \in {"replace_view", "update_view"}
                /\ calls[i].ref = nv_nodes[applied.id].backing_ref
             \/ /\ calls[i].fn = "new_view"
                /\ nv_nodes[applied.id].backing_ref \notin
                       {nv_old[x].backing_ref : x \in DOMAIN nv_old}


(***************************************************************************)
(* The reconciler given proxy views: views of one struct (one TypeId) that *)
(* stand for another type and override View::is_same_type.                 *)
(***************************************************************************)
\* a proxy view standing for the type ty, rendering body
Proxy(ty, key, body) == V("Proxy", ty, key, <<body>>)

\* the views given to render_root
ProxyViews ==
    { Unit, A,
      Proxy(0, None, Text(0, None)),
      Proxy(1, None, Text(0, None)),
      Proxy(0, None, Text(1, None)),
      Proxy(0, None, Layer(0, None, <<A, B>>)),
      Proxy(1, None, Layer(0, None, <<A, B>>)),
      Comp(0, None, Proxy(0, None, Text(0, None))),
      Layer(0, None, <<Proxy(0, Some(1), K1d), Proxy(0, Some(2), Text(0, None))>>),
      Layer(0, None, <<Proxy(1, Some(1), K1d), Proxy(0, Some(2), Text(1, None))>>),
      Layer(0, None, <<Proxy(0, Some(2), Text(0, None)), Proxy(1, Some(1), A)>>) }

\* render_root(view)
RenderRootProxy(view) ==
    /\ view \in ProxyViews
    /\ RenderRootCall(view)
    /\ UNCHANGED <<nv_vars, ext_vars>>

NextProxy == \E view \in ProxyViews : RenderRootProxy(view)

SpecProxy == Init /\ [][NextProxy]_vars

\* the diff of log entry i found a node whose view has the TypeId of the
\* new view
IsSameTypeIdCase(i) == IsSameKindCase(i)

\* the old view of log entry i says that the new view is not of its type
SaysOtherType(i) ==
    /\ old.nodes[log[i].id].view.kind = "Proxy"
    /\ old.nodes[log[i].id].view.prop # log[i].view.prop

\* C38: when the old and the new view have the same TypeId and the old
\* view's is_same_type returns false, the node is replaced: its state is
\* dropped and created anew, its old subtree is gone, and will_update is not
\* called, whatever eq would have answered; when is_same_type returns true
\* the node keeps its state and no Replace patch is enqueued for it.
C38_IsSameTypeDecides ==
    \A i \in DOMAIN log :
        IsSameTypeIdCase(i) =>
            LET id == log[i].id
            IN IF SaysOtherType(i)
               THEN /\ id \in DOMAIN nodes
                    /\ nodes[id].view = log[i].view
                    /\ nodes[id].state >= old.nstate
                    /\ CallCount("drop_state", id) = 1
                    /\ CallCount("new_state", id) = 1
                    /\ CallCount("will_update", id) = 0
                    /\ Descendants(old.nodes, id) \cap DOMAIN nodes = {}
               ELSE /\ id \in DOMAIN nodes
                    /\ nodes[id].state = old.nodes[id].state
                    /\ CallCount("drop_state", id) = 0
                    /\ CallCount("new_state", id) = 0
                    /\ PatchCount("Replace", id) = 0

\* one pass in which a proxy view with descendants met an equal body under
\* another type and was replaced, and a proxy view of the same type met
\* another body and was updated in place
C38_Witness ==
    /\ passes = 2
    /\ \E i \in DOMAIN log :
          /\ IsSameTypeIdCase(i)
          /\ SaysOtherType(i)
          /\ old.nodes[log[i].id].view.sub = log[i].view.sub
          /\ old.nodes[log[i].id].superview # NoId
          /\ Cardinality(Descendants(old.nodes, log[i].id)) >= 2
          /\ nodes[log[i].id].state # old.nodes[log[i].id].state
    /\ \E i \in DOMAIN log :
          /\ IsSameTypeIdCase(i)
          /\ old.nodes[log[i].id].view.kind = "Proxy"
          /\ ~SaysOtherType(i)
          /\ CallCount("will_update", log[i].id) = 1


\* C39 (as claimed): in the legacy ViewTree every handler of the
\* event-handler registry belongs to a view that is in the tree: a removed
\* view has no handler of any event type left.
C39_NoHandlerOfRemovedView ==
    legacy.pc = "rendered"
    => \A h \in legacy.event_handlers : h[1] \in DOMAIN legacy.views

=============================================================================
